---- MODULE Spec2Model ----
(***************************************************************************)
(* Job parsing / validation / dispatch (go/job) and the two Lambda stages   *)
(* (job-ingester, job-processor) of the event-driven job pipeline.          *)
(*                                                                          *)
(* Byte slices holding JSON text are records                                *)
(*     [syn |-> "ok" | "empty" | "garbage", form |-> "compact" | "spaced",  *)
(*      v |-> the JSON value the text denotes]                              *)
(* so that two texts are the same bytes iff the records are equal, and a    *)
(* text with insignificant white space ("spaced") differs from its          *)
(* compacted form although both denote the same value.                      *)
(* Go strings are TLA+ strings, except trace_context, which is a sequence   *)
(* of one-character strings because the code slices it by offset.           *)
(* A Go error is the sequence of its wrapped messages, <<>> being nil.      *)
(* A *string is a sequence of length at most one, <<>> being nil.           *)
(***************************************************************************)
EXTENDS Integers, Sequences, FiniteSets, TLC

VARIABLES
    message,    \* SpecParse: the bytes handed to ParseJob / ParseEnrichedPayload
    ret,        \* SpecParse: what the last call returned
    first,      \* SpecParse: what ParseJob returned before the envelope was built
    pc,         \* SpecParse: which call has been made
    ingesterQueue,  \* SQS queue "ingester-queue": messages waiting for the ingester
    jobsTodo,       \* SQS queue "jobs-todo": messages waiting for the processor
    redriven,       \* messages SQS itself moved to the dead-letter queue (redrive policy)
    ingester,       \* the ingester Lambda: its handler's position and outbound calls
    processor,      \* the processor Lambda: its handler's position and outbound calls
    produced        \* number of messages producers have submitted so far

----------------------------------------------------------------------------
(* JSON values *)

JAbsent == [t |-> "absent"]          \* result of looking up a key that is not there
JNull == [t |-> "null"]
JBool == [t |-> "bool"]
JArr == [t |-> "arr"]
JFrac == [t |-> "frac"]              \* a number that is not an integer, e.g. 30.5
JStr(s) == [t |-> "str", s |-> s]
JChars(c) == [t |-> "str", c |-> c]
JNum(n) == [t |-> "num", n |-> n]
JObj(f) == [t |-> "obj", f |-> f]

EmptyObj == [k \in {} |-> JNull]

\* The object with keys k1, k2 (a key whose value is JAbsent is left out).
Obj2(k1, v1, k2, v2) ==
    [k \in {kk \in {k1, k2} : (IF kk = k1 THEN v1 ELSE v2).t # "absent"} |->
        IF k = k1 THEN v1 ELSE v2]

\* f extended (or overridden) with key k; JAbsent leaves f alone.
With(f, k, v) ==
    IF v.t = "absent" THEN f
    ELSE [kk \in DOMAIN f \cup {k} |-> IF kk = k THEN v ELSE f[kk]]

Text(form, v) == [syn |-> "ok", form |-> form, v |-> v]
NilBytes == [syn |-> "empty", form |-> "compact", v |-> JNull]
Garbage == [syn |-> "garbage", form |-> "compact", v |-> JNull]

NilErr == <<>>
NilPtr == <<>>
Wrap(msg, err) == <<msg>> \o err

----------------------------------------------------------------------------
(* encoding/json as the package uses it *)

Field(obj, k) == IF obj.t = "obj" /\ k \in DOMAIN obj.f THEN obj.f[k] ELSE JAbsent

\* A missing key and a JSON null both leave the Go field at its zero value.
StrFieldOK(val) == val.t \in {"absent", "null", "str"}
IntFieldOK(val) == val.t \in {"absent", "null", "num"}
DecodeStr(val) == IF val.t = "str" THEN val.s ELSE ""
DecodeChars(val) == IF val.t = "str" THEN val.c ELSE <<>>
DecodeInt(val) == IF val.t = "num" THEN val.n ELSE 0

\* json.RawMessage field: the bytes of the value as they stand in the text.
DecodeRaw(data, val) == IF val.t = "absent" THEN NilBytes ELSE Text(data.form, val)

\* The error json.Unmarshal reports before looking at any field.
TopLevelErr(data) ==
    IF data.syn = "empty" THEN <<"unexpected end of JSON input">>
    ELSE IF data.syn = "garbage" THEN <<"invalid character">>
    ELSE IF data.v.t \in {"null", "obj"} THEN NilErr
    ELSE <<"json: cannot unmarshal into Go value">>

TypeErr(ok) == IF ok THEN NilErr ELSE <<"json: cannot unmarshal into Go struct field">>

\* Unmarshal into a struct: fieldsOK says every key present holds a value of
\* its field's type, decoded is the struct read from the object; a top-level
\* null leaves the struct zero and is no error.
UnmarshalStruct(data, zero, fieldsOK, decoded) ==
    IF TopLevelErr(data) # NilErr THEN [err |-> TopLevelErr(data), val |-> zero]
    ELSE IF data.v.t = "null" THEN [err |-> NilErr, val |-> zero]
    ELSE [err |-> TypeErr(fieldsOK), val |-> decoded]

----------------------------------------------------------------------------
(* go/job: the job model *)

ReportGeneration == "report_generation"
DataCleanup == "data_cleanup"
UserOnboarding == "user_onboarding"
LongRunning == "long_running_job"

StatusNew == "NEW"
StatusCompleted == "COMPLETED"
StatusExecuteFailed == "EXECUTE_FAILED"

NilJob == [kind |-> "nil"]
ReportGenerationJob(name, filters) ==
    [kind |-> "ReportGenerationJob", ReportName |-> name, Filters |-> filters]
DataCleanupJob(table, retention) ==
    [kind |-> "DataCleanupJob", TargetTable |-> table, Retention |-> retention]
UserOnboardingJob(id, name) ==
    [kind |-> "UserOnboardingJob", UserID |-> id, UserName |-> name]
LongRunningJob(task, timeout) ==
    [kind |-> "LongRunningJob", TaskName |-> task, Timeout |-> timeout]

ValidateReportGeneration(j) ==
    IF j.ReportName = "" THEN <<"report_name is required">>
    ELSE IF j.Filters = "" THEN <<"filters are required">>
    ELSE NilErr

\* Mutant: the retention check is forgotten.
ValidateDataCleanupNoRetention(j) ==
    IF j.TargetTable = "" THEN <<"target_table is required">> ELSE NilErr

ValidateDataCleanup(j) ==
    IF j.TargetTable = "" THEN <<"target_table is required">>
    ELSE IF j.Retention <= 0 THEN <<"retention must be greater than 0">>
    ELSE NilErr

ValidateUserOnboarding(j) ==
    IF j.UserID = "" THEN <<"user_id is required">>
    ELSE IF j.UserName = "" THEN <<"user_name is required">>
    ELSE NilErr

\* As ValidateLongRunning, rejecting only a negative timeout.
ValidateLongRunningAllowsZero(j) ==
    IF j.TaskName = "" THEN <<"task_name is required">>
    ELSE IF j.Timeout < 0 THEN <<"timeout must be greater than 0">>
    ELSE NilErr

ValidateLongRunning(j) ==
    IF j.TaskName = "" THEN <<"task_name is required">>
    ELSE IF j.Timeout <= 0 THEN <<"timeout must be greater than 0">>
    ELSE NilErr

Validate(j) ==
    CASE j.kind = "ReportGenerationJob" -> ValidateReportGeneration(j)
      [] j.kind = "DataCleanupJob" -> ValidateDataCleanup(j)
      [] j.kind = "UserOnboardingJob" -> ValidateUserOnboarding(j)
      [] j.kind = "LongRunningJob" -> ValidateLongRunning(j)

\* Mutant: the cleanup job reports a failure.
ExecuteCleanupFails(j) ==
    IF j.kind = "DataCleanupJob" THEN <<"execution failed">> ELSE NilErr

\* Execute logs (and, for the long-running kind, sleeps Timeout seconds) and
\* returns nil for every kind.
Execute(j) == NilErr

\* Seconds Execute blocks the caller.
ExecuteSeconds(j) == IF j.kind = "LongRunningJob" THEN j.Timeout ELSE 0

----------------------------------------------------------------------------
(* go/job: ParseJob and ParseEnrichedPayload *)

stringPtr(s) == <<s>>

ZeroJobMessage == [JobType |-> "", Message |-> NilBytes]

\* As UnmarshalJobMessage, with a job_type of the wrong JSON type left at its
\* zero value instead of being an error.
UnmarshalJobMessageIgnoresType(data) ==
    UnmarshalStruct(data, ZeroJobMessage, TRUE,
        [JobType |-> DecodeStr(Field(data.v, "job_type")),
                    Message |-> DecodeRaw(data, Field(data.v, "message"))])

UnmarshalJobMessage(data) ==
    UnmarshalStruct(data, ZeroJobMessage,
        StrFieldOK(Field(data.v, "job_type")),
        [JobType |-> DecodeStr(Field(data.v, "job_type")),
                    Message |-> DecodeRaw(data, Field(data.v, "message"))])

UnmarshalReportGenerationJob(data) ==
    UnmarshalStruct(data, ReportGenerationJob("", ""),
        StrFieldOK(Field(data.v, "report_name")) /\ StrFieldOK(Field(data.v, "filters")),
        ReportGenerationJob(DecodeStr(Field(data.v, "report_name")),
                                       DecodeStr(Field(data.v, "filters"))))

UnmarshalDataCleanupJob(data) ==
    UnmarshalStruct(data, DataCleanupJob("", 0),
        StrFieldOK(Field(data.v, "target_table")) /\ IntFieldOK(Field(data.v, "retention")),
        DataCleanupJob(DecodeStr(Field(data.v, "target_table")),
                                  DecodeInt(Field(data.v, "retention"))))

UnmarshalUserOnboardingJob(data) ==
    UnmarshalStruct(data, UserOnboardingJob("", ""),
        StrFieldOK(Field(data.v, "user_id")) /\ StrFieldOK(Field(data.v, "user_name")),
        UserOnboardingJob(DecodeStr(Field(data.v, "user_id")),
                                     DecodeStr(Field(data.v, "user_name"))))

UnmarshalLongRunningJob(data) ==
    UnmarshalStruct(data, LongRunningJob("", 0),
        StrFieldOK(Field(data.v, "task_name")) /\ IntFieldOK(Field(data.v, "timeout")),
        LongRunningJob(DecodeStr(Field(data.v, "task_name")),
                                  DecodeInt(Field(data.v, "timeout"))))

Ret(job, orig, jobType, err) ==
    [job |-> job, orig |-> orig, jobType |-> jobType, err |-> err]

\* Mutant: the original bytes are dropped on every path.
ParseJobArmDropsOriginal(msg, jm, u, what) ==
    IF u.err # NilErr
    THEN Ret(NilJob, NilBytes, stringPtr(jm.JobType), Wrap(what, u.err))
    ELSE IF Validate(u.val) # NilErr
    THEN Ret(NilJob, NilBytes, stringPtr(jm.JobType),
             Wrap("job validation failed", Validate(u.val)))
    ELSE Ret(u.val, NilBytes, stringPtr(jm.JobType), NilErr)

\* Mutant: a job that failed validation is handed out next to the error.
ParseJobArmLeaksInvalid(msg, jm, u, what) ==
    IF u.err # NilErr
    THEN Ret(NilJob, msg, stringPtr(jm.JobType), Wrap(what, u.err))
    ELSE IF Validate(u.val) # NilErr
    THEN Ret(u.val, NilBytes, stringPtr(jm.JobType),
             Wrap("job validation failed", Validate(u.val)))
    ELSE Ret(u.val, msg, stringPtr(jm.JobType), NilErr)

\* The part of ParseJob after a switch arm has unmarshalled message into u:
\* the arm's error return, then validation and the final return.
ParseJobArm(msg, jm, u, what) ==
    IF u.err # NilErr
    THEN Ret(NilJob, msg, stringPtr(jm.JobType), Wrap(what, u.err))
    ELSE IF Validate(u.val) # NilErr
    THEN Ret(NilJob, NilBytes, stringPtr(jm.JobType),
             Wrap("job validation failed", Validate(u.val)))
    ELSE Ret(u.val, msg, stringPtr(jm.JobType), NilErr)

\* Mutant: the default arm reports the unrecognised discriminator as job type.
UnknownJobTypeTagged(msg, jm) ==
    Ret(NilJob, NilBytes, stringPtr(jm.JobType), <<"unknown job type">>)

\* The default arm of ParseJob's switch.
UnknownJobType(msg, jm) == Ret(NilJob, NilBytes, NilPtr, <<"unknown job type">>)

ParseJob(msg) ==
    LET top == UnmarshalJobMessage(msg)
        jm == top.val
    IN  IF top.err # NilErr
        THEN Ret(NilJob, NilBytes, NilPtr, Wrap("failed to parse job message", top.err))
        ELSE CASE jm.JobType = ReportGeneration ->
                    ParseJobArm(msg, jm, UnmarshalReportGenerationJob(jm.Message),
                                "failed to parse report_generation job")
               [] jm.JobType = DataCleanup ->
                    ParseJobArm(msg, jm, UnmarshalDataCleanupJob(jm.Message),
                                "failed to parse data_cleanup job")
               [] jm.JobType = UserOnboarding ->
                    ParseJobArm(msg, jm, UnmarshalUserOnboardingJob(jm.Message),
                                "failed to parse user_onboarding job")
               [] jm.JobType = LongRunning ->
                    ParseJobArm(msg, jm, UnmarshalLongRunningJob(jm.Message),
                                "failed to parse long_running_job")
               [] OTHER -> UnknownJobType(msg, jm)

ZeroEnrichedPayload ==
    [OriginalMessage |-> NilBytes, ID |-> "", Timestamp |-> "", Status |-> "",
     TraceContext |-> <<>>]
NilPayload == [nil |-> TRUE]

\* Mutant: an envelope whose status is not NEW is an error.
UnmarshalEnrichedPayloadNewOnly(data) ==
    UnmarshalStruct(data, ZeroEnrichedPayload,
        /\ StrFieldOK(Field(data.v, "id"))
                   /\ StrFieldOK(Field(data.v, "timestamp"))
                   /\ StrFieldOK(Field(data.v, "status"))
                   /\ DecodeStr(Field(data.v, "status")) = "NEW"
                   /\ StrFieldOK(Field(data.v, "trace_context")),
        [OriginalMessage |-> DecodeRaw(data, Field(data.v, "originalmessage")),
                    ID |-> DecodeStr(Field(data.v, "id")),
                    Timestamp |-> DecodeStr(Field(data.v, "timestamp")),
                    Status |-> DecodeStr(Field(data.v, "status")),
                    TraceContext |-> DecodeChars(Field(data.v, "trace_context"))])

UnmarshalEnrichedPayload(data) ==
    UnmarshalStruct(data, ZeroEnrichedPayload,
        /\ StrFieldOK(Field(data.v, "id"))
                   /\ StrFieldOK(Field(data.v, "timestamp"))
                   /\ StrFieldOK(Field(data.v, "status"))
                   /\ StrFieldOK(Field(data.v, "trace_context")),
        [OriginalMessage |-> DecodeRaw(data, Field(data.v, "originalmessage")),
                    ID |-> DecodeStr(Field(data.v, "id")),
                    Timestamp |-> DecodeStr(Field(data.v, "timestamp")),
                    Status |-> DecodeStr(Field(data.v, "status")),
                    TraceContext |-> DecodeChars(Field(data.v, "trace_context"))])

RetE(job, payload, jobType, err) ==
    [job |-> job, payload |-> payload, jobType |-> jobType, err |-> err]

\* Mutant: an envelope without originalmessage is parsed as if it were the
\* raw job envelope itself.
ParseEnrichedPayloadFlat(msg) ==
    LET top == UnmarshalEnrichedPayload(msg)
        inner == ParseJob(IF top.val.OriginalMessage = NilBytes THEN msg
                          ELSE top.val.OriginalMessage)
    IN  IF top.err # NilErr
        THEN RetE(NilJob, NilPayload, NilPtr, Wrap("failed to parse enriched payload", top.err))
        ELSE IF inner.err # NilErr
        THEN RetE(NilJob, NilPayload, inner.jobType,
                  Wrap("failed to parse job from enriched payload", inner.err))
        ELSE RetE(inner.job, top.val, inner.jobType, NilErr)

ParseEnrichedPayload(msg) ==
    LET top == UnmarshalEnrichedPayload(msg)
        inner == ParseJob(top.val.OriginalMessage)
    IN  IF top.err # NilErr
        THEN RetE(NilJob, NilPayload, NilPtr, Wrap("failed to parse enriched payload", top.err))
        ELSE IF inner.err # NilErr
        THEN RetE(NilJob, NilPayload, inner.jobType,
                  Wrap("failed to parse job from enriched payload", inner.err))
        ELSE RetE(inner.job, top.val, inner.jobType, NilErr)

\* Mutant: the struct tag of OriginalMessage is misspelt.
MarshalEnrichedPayloadWrongKey(p) ==
    IF p.OriginalMessage.syn = "garbage"
    THEN [err |-> <<"json: error calling MarshalJSON for type json.RawMessage">>,
          data |-> NilBytes]
    ELSE [err |-> NilErr,
          data |-> Text("compact",
                JObj([original_message |-> p.OriginalMessage.v,
                      id |-> JStr(p.ID),
                      timestamp |-> JStr(p.Timestamp),
                      status |-> JStr(p.Status),
                      trace_context |-> JChars(p.TraceContext)]))]

\* json.Marshal of an EnrichedPayload: the embedded RawMessage is re-emitted
\* compacted; a nil RawMessage is written as null; an invalid one is an error.
MarshalEnrichedPayload(p) ==
    IF p.OriginalMessage.syn = "garbage"
    THEN [err |-> <<"json: error calling MarshalJSON for type json.RawMessage">>,
          data |-> NilBytes]
    ELSE [err |-> NilErr,
          data |-> Text("compact",
                JObj([originalmessage |-> p.OriginalMessage.v,
                      id |-> JStr(p.ID),
                      timestamp |-> JStr(p.Timestamp),
                      status |-> JStr(p.Status),
                      trace_context |-> JChars(p.TraceContext)]))]

----------------------------------------------------------------------------
(* Trace context codec: go.opentelemetry.io/otel/trace ids and the token    *)
(* "00-<trace id>-<span id>-01" the ingester writes and the processor reads *)

HexTable == <<"0", "1", "2", "3", "4", "5", "6", "7",
              "8", "9", "a", "b", "c", "d", "e", "f">>
HexDigits == {HexTable[i] : i \in 1..16}
HexVal(c) == (CHOOSE i \in 1..16 : HexTable[i] = c) - 1

\* TraceID.String() / SpanID.String(): lower-case hex of the id's bytes.
HexString(bytes) ==
    [i \in 1..(2 * Len(bytes)) |->
        IF i % 2 = 1 THEN HexTable[(bytes[(i + 1) \div 2] \div 16) + 1]
        ELSE HexTable[(bytes[i \div 2] % 16) + 1]]

HexBytes(h) ==
    [i \in 1..(Len(h) \div 2) |-> 16 * HexVal(h[2 * i - 1]) + HexVal(h[2 * i])]

TraceIDLen == 16
SpanIDLen == 8
TraceparentLen == 55

\* TraceIDFromHex / SpanIDFromHex: the length must fit, every character must be
\* a lower-case hex digit, and the id must not be all zero.
IDFromHex(h, n) ==
    IF Len(h) # 2 * n THEN [err |-> <<"hex encoded id has the wrong length">>, id |-> <<>>]
    ELSE IF \E i \in 1..Len(h) : h[i] \notin HexDigits
    THEN [err |-> <<"id can only contain [0-9a-f] characters, all lowercase">>, id |-> <<>>]
    ELSE IF \A i \in 1..n : HexBytes(h)[i] = 0
    THEN [err |-> <<"id can't be all zero">>, id |-> <<>>]
    ELSE [err |-> NilErr, id |-> HexBytes(h)]

TraceIDFromHex(h) == IDFromHex(h, TraceIDLen)
SpanIDFromHex(h) == IDFromHex(h, SpanIDLen)

\* fmt.Sprintf("00-%s-%s-01", traceID, spanID)
Traceparent(traceID, spanID) ==
    <<"0", "0", "-">> \o HexString(traceID) \o <<"-">> \o HexString(spanID)
        \o <<"-", "0", "1">>

\* Go's s[lo:hi]
Slice(s, lo, hi) == SubSeq(s, lo + 1, hi)

NoSpanContext == [valid |-> FALSE]
RemoteSpanContext(traceID, spanID) ==
    [valid |-> TRUE, TraceID |-> traceID, SpanID |-> spanID, Sampled |-> TRUE,
     Remote |-> TRUE]

----------------------------------------------------------------------------
(* Inputs of the parsing functions *)

Forms == {"compact", "spaced"}

StrVals(s) == {JAbsent, JNull, JStr(""), JStr(s), JNum(5)}
IntVals == {JAbsent, JNull, JNum(0), JNum(0 - 1), JNum(1), JNum(30), JNum(900),
            JFrac, JStr("30")}

ReportMessages ==
    {JObj(Obj2("report_name", a, "filters", b)) :
        a \in StrVals("Sales Report"), b \in StrVals("region=US")}
CleanupMessages ==
    {JObj(Obj2("target_table", a, "retention", b)) : a \in StrVals("users"), b \in IntVals}
OnboardingMessages ==
    {JObj(Obj2("user_id", a, "user_name", b)) :
        a \in StrVals("user-001"), b \in StrVals("John Doe")}
LongRunningMessages ==
    {JObj(Obj2("task_name", a, "timeout", b)) : a \in StrVals("backup"), b \in IntVals}

MessageVals ==
    ReportMessages \cup CleanupMessages \cup OnboardingMessages \cup LongRunningMessages
        \cup {JAbsent, JNull, JStr("x"), JArr}

KnownJobTypes == {ReportGeneration, DataCleanup, UserOnboarding, LongRunning}
JobTypeVals ==
    {JStr(k) : k \in KnownJobTypes} \cup
        {JAbsent, JNull, JNum(1), JStr("unknown_job"), JStr("")}

JobValue(jt, m) == JObj(Obj2("job_type", jt, "message", m))

JobTexts ==
    {Text(form, JobValue(jt, m)) : form \in Forms, jt \in JobTypeVals, m \in MessageVals}
        \cup {Text(form, v) : form \in Forms, v \in {JNull, JArr, JStr("x")}}
        \cup {NilBytes, Garbage}

\* One raw envelope of each outcome class of ParseJob, for embedding.
SampleJobValues ==
    { JobValue(JStr(ReportGeneration),
          JObj(Obj2("report_name", JStr("Sales Report"), "filters", JStr("region=US")))),
      JobValue(JStr(DataCleanup),
          JObj(Obj2("target_table", JStr("users"), "retention", JNum(30)))),
      JobValue(JStr(UserOnboarding),
          JObj(Obj2("user_id", JStr("user-001"), "user_name", JStr("John Doe")))),
      JobValue(JStr(LongRunning),
          JObj(Obj2("task_name", JStr("backup"), "timeout", JNum(30)))),
      JobValue(JStr(DataCleanup), JObj(Obj2("target_table", JAbsent, "retention", JNum(30)))),
      JobValue(JStr(DataCleanup),
          JObj(Obj2("target_table", JStr("users"), "retention", JStr("30")))),
      JobValue(JStr(ReportGeneration), JAbsent),
      JobValue(JStr("unknown_job"), JObj(EmptyObj)),
      JNull, JArr }

TraceIDs ==
    { [i \in 1..TraceIDLen |-> IF i = 1 THEN 255 ELSE i],
      [i \in 1..TraceIDLen |-> IF i = TraceIDLen THEN 171 ELSE 0] }
SpanIDs ==
    { [i \in 1..SpanIDLen |-> 16 * i],
      [i \in 1..SpanIDLen |-> IF i = 1 THEN 1 ELSE 0] }

MessageIds == {"12345", "67890"}
Timestamps == {"2025-08-30T12:00:00Z", "2025-08-30T12:30:00+01:00"}
Statuses == {StatusNew, StatusCompleted, StatusExecuteFailed, "IN_PROGRESS"}

EnvelopeValue(om, id, ts, st, tc, extra) ==
    JObj(With(With(With(With(With(extra, "originalmessage", om), "id", id),
                        "timestamp", ts), "status", st), "trace_context", tc))

\* Keys a producer may put at the top level of an envelope by mistake.
ExtraKeys == {EmptyObj, Obj2("job_type", JStr(ReportGeneration), "message", JObj(EmptyObj))}

EnvelopeTexts ==
    {Text(form, EnvelopeValue(om, id, ts, st, tc, extra)) :
        form \in Forms,
        om \in SampleJobValues \cup {JAbsent},
        id \in {JStr("12345"), JAbsent, JNum(7)},
        ts \in {JStr("2025-08-30T12:00:00Z"), JAbsent},
        st \in {JStr(StatusNew), JStr("IN_PROGRESS"), JAbsent, JNum(1)},
        tc \in {JAbsent, JNum(0),
                JChars(Traceparent([i \in 1..TraceIDLen |-> IF i = 1 THEN 255 ELSE i], [i \in 1..SpanIDLen |-> 16 * i]))},
        extra \in ExtraKeys}

----------------------------------------------------------------------------
(* SpecParse: the parsing functions applied to every input *)

NoRet == [none |-> TRUE]

parseVars == <<message, ret, first, pc>>
pipeVars == <<ingesterQueue, jobsTodo, redriven, ingester, processor, produced>>
vars == <<message, ret, first, pc, ingesterQueue, jobsTodo, redriven, ingester, processor,
          produced>>

Idle == [state |-> "idle", Records |-> <<>>, i |-> 0, calls |-> <<>>, result |-> "none",
         elapsed |-> 0, TraceID |-> <<>>, unrouted |-> 0]

PipeIdle ==
    /\ ingesterQueue = <<>>
    /\ jobsTodo = <<>>
    /\ redriven = <<>>
    /\ ingester = Idle
    /\ processor = Idle
    /\ produced = 0

InitParse ==
    /\ message \in JobTexts \cup EnvelopeTexts
    /\ ret = NoRet
    /\ first = NoRet
    /\ pc = "input"
    /\ PipeIdle

CallParseJob ==
    /\ pc = "input"
    /\ ret' = ParseJob(message)
    /\ pc' = "ParseJob"
    /\ UNCHANGED <<message, first>>
    /\ UNCHANGED pipeVars

CallParseEnrichedPayload ==
    /\ pc = "input"
    /\ ret' = ParseEnrichedPayload(message)
    /\ pc' = "ParseEnrichedPayload"
    /\ UNCHANGED <<message, first>>
    /\ UNCHANGED pipeVars

\* A caller wraps a raw envelope that ParseJob accepted into an
\* EnrichedPayload and serializes it.
Enrich ==
    /\ pc = "ParseJob"
    /\ ret.err = NilErr
    /\ \E id \in MessageIds, ts \in Timestamps, st \in Statuses,
          tid \in TraceIDs, sid \in SpanIDs :
          LET p == [OriginalMessage |-> message, ID |-> id, Timestamp |-> ts,
                    Status |-> st, TraceContext |-> Traceparent(tid, sid)]
          IN  /\ MarshalEnrichedPayload(p).err = NilErr
              /\ message' = MarshalEnrichedPayload(p).data
    /\ first' = [ret |-> ret, input |-> message]
    /\ ret' = NoRet
    /\ pc' = "enriched"
    /\ UNCHANGED pipeVars

RoundTrip ==
    /\ pc = "enriched"
    /\ ret' = ParseEnrichedPayload(message)
    /\ pc' = "roundtrip"
    /\ UNCHANGED <<message, first>>
    /\ UNCHANGED pipeVars

NextParse == CallParseJob \/ CallParseEnrichedPayload \/ Enrich \/ RoundTrip

SpecParse == InitParse /\ [][NextParse]_vars

\* Validate applied to job values directly: every combination of an empty or
\* non-empty string and a negative, zero or positive number in each field.
FieldStrings == {"", "x", "users"}
FieldInts == {0 - 900, 0 - 1, 0, 1, 30, 899, 900, 901}

JobValues ==
    {ReportGenerationJob(a, b) : a \in FieldStrings, b \in FieldStrings}
        \cup {DataCleanupJob(a, n) : a \in FieldStrings, n \in FieldInts}
        \cup {UserOnboardingJob(a, b) : a \in FieldStrings, b \in FieldStrings}
        \cup {LongRunningJob(a, n) : a \in FieldStrings, n \in FieldInts}

InitValidate ==
    /\ message = NilBytes
    /\ first \in {[job |-> j] : j \in JobValues}
    /\ ret = NoRet
    /\ pc = "job"
    /\ PipeIdle

CallValidate ==
    /\ pc = "job"
    /\ ret' = [err |-> Validate(first.job)]
    /\ pc' = "Validate"
    /\ UNCHANGED <<message, first>>
    /\ UNCHANGED pipeVars

NextValidate == CallValidate

SpecValidate == InitValidate /\ [][NextValidate]_vars

----------------------------------------------------------------------------
(* The two Lambda stages.  Every outbound call and span operation a handler *)
(* makes is appended, in program order, to the stage's calls; rec is the    *)
(* index in sqsEvent.Records of the message being processed.                *)

NoArg == [none |-> TRUE]
Call(rec, op, text, body, err, ok, arg) ==
    [rec |-> rec, op |-> op, text |-> text, body |-> body, err |-> err, ok |-> ok,
     arg |-> arg]

Log(rec, text) == <<Call(rec, "Log", text, NilBytes, NilErr, TRUE, NoArg)>>
SpanOp(rec, op, text, arg) == <<Call(rec, op, text, NilBytes, NilErr, TRUE, arg)>>

\* publishToSNS: the message is the format text with body and err interpolated
\* (arg is a struct printed with %v); ok is whether snsClient.Publish
\* succeeded.  Every caller discards the error publishToSNS returns.
publishToSNS(rec, text, body, err, arg, ok) ==
    <<Call(rec, "Publish", text, body, err, ok, arg)>>

\* sendToDeadLetterQueue: a failed send is logged and nothing else.
sendToDeadLetterQueue(rec, body, ok) ==
    <<Call(rec, "SendDeadLetter", "", body, NilErr, ok, NoArg)>>
        \o (IF ok THEN <<>> ELSE Log(rec, "failed to send message to dead-letter queue"))

SendErr == <<"operation error SQS: SendMessage">>

\* json.Unmarshal([]byte(message.Body), &eventBridgeMessage)
UnmarshalEventBridgeMessage(data) ==
    UnmarshalStruct(data, [Detail |-> NilBytes], TRUE,
        [Detail |-> DecodeRaw(data, Field(data.v, "detail"))])

\* Mutant: the dead-letter send is made before the notification.
IngesterParseFailureDeadLettersFirst(rec, detail, err, snsOK, dlqOK) ==
    SpanOp(rec, "RecordError", "", NoArg)
        \o Log(rec, "failed to parse or validate job")
        \o sendToDeadLetterQueue(rec, detail, dlqOK)
        \o publishToSNS(rec, "failed to parse or validate job", detail, NilErr, NoArg, snsOK)

\* The ingester's reaction to a ParseJob error.
IngesterParseFailure(rec, detail, err, snsOK, dlqOK) ==
    SpanOp(rec, "RecordError", "", NoArg)
        \o Log(rec, "failed to parse or validate job")
        \o publishToSNS(rec, "failed to parse or validate job", detail, NilErr, NoArg, snsOK)
        \o sendToDeadLetterQueue(rec, detail, dlqOK)

\* Mutant: a failed send to jobs-todo is notified but not dead-lettered.
IngesterSendFailureNotifiesOnly(rec, detail, data, snsOK, dlqOK) ==
    SpanOp(rec, "RecordError", "", NoArg)
        \o Log(rec, "failed to send message to jobs-todo queue")
        \o publishToSNS(rec, "failed to send message to jobs-todo queue", data, SendErr,
                        NoArg, snsOK)

\* Mutant: the serialized envelope is dead-lettered.
IngesterSendFailureDeadLettersEnvelope(rec, detail, data, snsOK, dlqOK) ==
    SpanOp(rec, "RecordError", "", NoArg)
        \o Log(rec, "failed to send message to jobs-todo queue")
        \o publishToSNS(rec, "failed to send message to jobs-todo queue", data, SendErr,
                        NoArg, snsOK)
        \o sendToDeadLetterQueue(rec, data, dlqOK)

\* The ingester's reaction to a failed SendMessage to jobs-todo: data is the
\* serialized envelope, detail the raw job bytes.
IngesterSendFailure(rec, detail, data, snsOK, dlqOK) ==
    SpanOp(rec, "RecordError", "", NoArg)
        \o Log(rec, "failed to send message to jobs-todo queue")
        \o publishToSNS(rec, "failed to send message to jobs-todo queue", data, SendErr,
                        NoArg, snsOK)
        \o sendToDeadLetterQueue(rec, detail, dlqOK)

\* processMessage of the ingester, from tracer.Start to the deferred span.End():
\* calls are the calls made, out the bodies accepted by the jobs-todo queue.
IngesterProcessMessage(rec, msg, traceID, spanID, now, sendOK, snsOK, dlqOK) ==
    LET ev == UnmarshalEventBridgeMessage(msg.Body)
        detail == ev.val.Detail
        pj == ParseJob(detail)
        enrichedPayload ==
            [OriginalMessage |-> detail, ID |-> msg.MessageId, Timestamp |-> now,
             Status |-> StatusNew, TraceContext |-> Traceparent(traceID, spanID)]
        mar == MarshalEnrichedPayload(enrichedPayload)
        start == SpanOp(rec, "SpanStart", "ProcessMessage",
                        [TraceID |-> traceID, SpanID |-> spanID, MessageId |-> msg.MessageId])
        end == SpanOp(rec, "SpanEnd", "ProcessMessage", NoArg)
                  \o SpanOp(rec, "Return", "", NoArg)
    IN  IF ev.err # NilErr
        THEN [calls |-> start
                    \o SpanOp(rec, "RecordError", "", NoArg)
                    \o Log(rec, "failed to parse EventBridge message")
                    \o publishToSNS(rec, "failed to parse EventBridge message", detail,
                                    NilErr, NoArg, snsOK)
                    \o sendToDeadLetterQueue(rec, detail, dlqOK)
                    \o end,
              out |-> <<>>]
        ELSE IF pj.err # NilErr
        THEN [calls |-> start \o IngesterParseFailure(rec, detail, pj.err, snsOK, dlqOK) \o end,
              out |-> <<>>]
        ELSE IF mar.err # NilErr
        THEN [calls |-> start
                    \o SpanOp(rec, "RecordError", "", NoArg)
                    \o Log(rec, "failed to marshal enriched payload")
                    \o publishToSNS(rec, "failed to marshal enriched payload", detail,
                                    NilErr, NoArg, snsOK)
                    \o sendToDeadLetterQueue(rec, detail, dlqOK)
                    \o end,
              out |-> <<>>]
        ELSE IF ~sendOK
        THEN [calls |-> start
                    \o <<Call(rec, "SendJobsTodo", "", mar.data, NilErr, FALSE, NoArg)>>
                    \o IngesterSendFailure(rec, detail, mar.data, snsOK, dlqOK)
                    \o end,
              out |-> <<>>]
        ELSE [calls |-> start
                    \o <<Call(rec, "SendJobsTodo", "", mar.data, NilErr, TRUE, NoArg)>>
                    \o SpanOp(rec, "AddEvent", "Message sent to jobs-todo queue", NoArg)
                    \o Log(rec, "Successfully processed job")
                    \o Log(rec, "Enriched Payload")
                    \o end,
              out |-> <<mar.data>>]

LambdaTimeout == 900
MaxReceiveCount == 5

\* Mutant: the span id is sliced one character early.
DecodeTraceparentOffByOne(traceparent) ==
    IF traceparent = <<>> THEN [abort |-> FALSE, parent |-> NoSpanContext]
    ELSE IF Len(traceparent) # TraceparentLen
            \/ Slice(traceparent, 0, 3) # <<"0", "0", "-">>
    THEN [abort |-> FALSE, parent |-> NoSpanContext]
    ELSE LET t == TraceIDFromHex(Slice(traceparent, 3, 35))
             s == SpanIDFromHex(Slice(traceparent, 35, 51))
         IN  IF t.err # NilErr THEN [abort |-> TRUE, parent |-> NoSpanContext]
             ELSE IF s.err # NilErr THEN [abort |-> TRUE, parent |-> NoSpanContext]
             ELSE [abort |-> FALSE, parent |-> RemoteSpanContext(t.id, s.id)]

\* Mutant: a token of the wrong length or prefix ends processing of the message.
DecodeTraceparentStrict(traceparent) ==
    IF traceparent = <<>> THEN [abort |-> FALSE, parent |-> NoSpanContext]
    ELSE IF Len(traceparent) # TraceparentLen
            \/ Slice(traceparent, 0, 3) # <<"0", "0", "-">>
    THEN [abort |-> TRUE, parent |-> NoSpanContext]
    ELSE LET t == TraceIDFromHex(Slice(traceparent, 3, 35))
             s == SpanIDFromHex(Slice(traceparent, 36, 52))
         IN  IF t.err # NilErr THEN [abort |-> TRUE, parent |-> NoSpanContext]
             ELSE IF s.err # NilErr THEN [abort |-> TRUE, parent |-> NoSpanContext]
             ELSE [abort |-> FALSE, parent |-> RemoteSpanContext(t.id, s.id)]

\* The processor's handling of job.TraceContext: abort is TRUE where the code
\* returns from processMessage, parent is the span context put into executeCtx
\* (executeCtx stays nil otherwise, and tracer.Start on a nil context starts
\* a root span).
DecodeTraceparent(traceparent) ==
    IF traceparent = <<>> THEN [abort |-> FALSE, parent |-> NoSpanContext]
    ELSE IF Len(traceparent) # TraceparentLen
            \/ Slice(traceparent, 0, 3) # <<"0", "0", "-">>
    THEN [abort |-> FALSE, parent |-> NoSpanContext]
    ELSE LET t == TraceIDFromHex(Slice(traceparent, 3, 35))
             s == SpanIDFromHex(Slice(traceparent, 36, 52))
         IN  IF t.err # NilErr THEN [abort |-> TRUE, parent |-> NoSpanContext]
             ELSE IF s.err # NilErr THEN [abort |-> TRUE, parent |-> NoSpanContext]
             ELSE [abort |-> FALSE, parent |-> RemoteSpanContext(t.id, s.id)]

\* Mutant: the failed body is notified but not dead-lettered.
ProcessorUnmarshalFailureNoDeadLetter(rec, msg, err, snsOK, dlqOK) ==
    Log(rec, "failed to parse job message")
        \o publishToSNS(rec, "failed to parse job message", msg.Body, err, NoArg, snsOK)

\* The processor's reaction to a body that is not an EnrichedPayload.
ProcessorUnmarshalFailure(rec, msg, err, snsOK, dlqOK) ==
    Log(rec, "failed to parse job message")
        \o publishToSNS(rec, "failed to parse job message", msg.Body, err, NoArg, snsOK)
        \o sendToDeadLetterQueue(rec, msg.Body, dlqOK)

\* Mutant: the embedded job bytes are dead-lettered, as the ingester does.
ProcessorParseFailureDeadLettersOriginal(rec, msg, job, err, snsOK, dlqOK) ==
    Log(rec, "failed to parse job")
        \o publishToSNS(rec, "failed to parse job", job.OriginalMessage, err, NoArg, snsOK)
        \o sendToDeadLetterQueue(rec, job.OriginalMessage, dlqOK)

\* The processor's reaction to a ParseJob error on job.OriginalMessage.
ProcessorParseFailure(rec, msg, job, err, snsOK, dlqOK) ==
    Log(rec, "failed to parse job")
        \o publishToSNS(rec, "failed to parse job", job.OriginalMessage, err, NoArg, snsOK)
        \o sendToDeadLetterQueue(rec, msg.Body, dlqOK)

\* Mutant: the envelope with its new status is serialized and dead-lettered.
ProcessorExecuteFailureDeadLettersStatus(rec, msg, job, err, snsOK, dlqOK) ==
    LET failed == [job EXCEPT !.Status = StatusExecuteFailed]
    IN  SpanOp(rec, "RecordError", "", NoArg)
            \o Log(rec, "failed to execute job")
            \o SpanOp(rec, "AddEvent", "job failed to execute", NoArg)
            \o publishToSNS(rec, "failed to execute job", NilBytes, err, failed, snsOK)
            \o sendToDeadLetterQueue(rec, MarshalEnrichedPayload(failed).data, dlqOK)

\* The processor's reaction to an error returned by parsedJob.Execute(): the
\* local variable job gets status EXECUTE_FAILED and is printed into the
\* notification; the body received is dead-lettered.
ProcessorExecuteFailure(rec, msg, job, err, snsOK, dlqOK) ==
    LET failed == [job EXCEPT !.Status = StatusExecuteFailed]
    IN  SpanOp(rec, "RecordError", "", NoArg)
            \o Log(rec, "failed to execute job")
            \o SpanOp(rec, "AddEvent", "job failed to execute", NoArg)
            \o publishToSNS(rec, "failed to execute job", NilBytes, err, failed, snsOK)
            \o sendToDeadLetterQueue(rec, msg.Body, dlqOK)

\* Mutant: the notification is built before the status is assigned.
ProcessorSuccessStatusTooLate(rec, job, snsOK) ==
    SpanOp(rec, "AddEvent", "job executed successfully", NoArg)
        \o Log(rec, "successfully executed job")
        \o publishToSNS(rec, "successfully executed job", NilBytes, NilErr, job, snsOK)

\* The processor after parsedJob.Execute() returned nil: the local variable
\* job gets status COMPLETED and is printed into the notification.
ProcessorSuccess(rec, job, snsOK) ==
    LET completed == [job EXCEPT !.Status = StatusCompleted]
    IN  SpanOp(rec, "AddEvent", "job executed successfully", NoArg)
            \o Log(rec, "successfully executed job")
            \o publishToSNS(rec, "successfully executed job", NilBytes, NilErr, completed,
                            snsOK)

\* The job the processor derives from a message of jobs-todo.
EmbeddedJob(msg) == ParseJob(UnmarshalEnrichedPayload(msg.Body).val.OriginalMessage).job

\* Mutant: the deferred function logs but does not end the span.
ExecuteJobSpanEndLogsOnly(rec) ==
    Log(rec, "Ending ExecuteJob span")

\* The function deferred after tracer.Start: it runs when processMessage
\* returns or panics.
ExecuteJobSpanEnd(rec) ==
    Log(rec, "Ending ExecuteJob span") \o SpanOp(rec, "SpanEnd", "ExecuteJob", NoArg)

\* A sequence without its last element.
Front(seq) == SubSeq(seq, 1, Len(seq) - 1)

\* processMessage of the processor.  elapsed is the time the invocation has
\* used already; execErr is what parsedJob.Execute() returns if it returns;
\* killed says the invocation ended inside this message: the Lambda runtime
\* ended it while Execute was blocking (the function's timeout is
\* LambdaTimeout seconds), or processMessage panicked.  After a failed Execute
\* the dead-letter send is given executeCtx, which is nil when no parent was
\* decoded; nilCtxPanics says whether SendMessage panics on a nil context
\* (the deferred span.End() still runs) or goes on as with any context.
ProcessorProcessMessage(rec, msg, elapsed, execErr, nilCtxPanics, snsOK, dlqOK) ==
    LET u == UnmarshalEnrichedPayload(msg.Body)
        job == u.val
        tp == DecodeTraceparent(job.TraceContext)
        pj == ParseJob(job.OriginalMessage)
        begin == <<Call(rec, "Log", "Processing SQS message", msg.Body, NilErr, TRUE, NoArg)>>
        parse == <<Call(rec, "ParseJob", "", job.OriginalMessage, pj.err, pj.err = NilErr,
                        NoArg)>>
        spanStart == SpanOp(rec, "SpanStart", "ExecuteJob",
                        [parent |-> tp.parent, jobType |-> pj.jobType, ID |-> job.ID,
                         MessageId |-> msg.MessageId])
        spanEnd == ExecuteJobSpanEnd(rec)
        failed == [job EXCEPT !.Status = StatusExecuteFailed]
        completed == [job EXCEPT !.Status = StatusCompleted]
    IN  IF u.err # NilErr
        THEN [calls |-> begin
                    \o ProcessorUnmarshalFailure(rec, msg, u.err, snsOK, dlqOK)
                    \o SpanOp(rec, "Return", "", NoArg),
              killed |-> FALSE, seconds |-> 0]
        ELSE IF tp.abort
        THEN [calls |-> begin
                    \o Log(rec, "Failed to parse trace ID or span ID from traceparent")
                    \o SpanOp(rec, "Return", "", job),
              killed |-> FALSE, seconds |-> 0]
        ELSE IF pj.err # NilErr
        THEN [calls |-> begin \o parse
                    \o ProcessorParseFailure(rec, msg, job, pj.err, snsOK, dlqOK)
                    \o SpanOp(rec, "Return", "", job),
              killed |-> FALSE, seconds |-> 0]
        ELSE IF elapsed + ExecuteSeconds(pj.job) >= LambdaTimeout
        THEN [calls |-> begin \o parse \o spanStart
                    \o <<Call(rec, "Execute", "timeout", NilBytes, NilErr, FALSE, pj.job)>>,
              killed |-> TRUE, seconds |-> ExecuteSeconds(pj.job)]
        ELSE IF execErr # NilErr /\ tp.parent = NoSpanContext /\ nilCtxPanics
        THEN [calls |-> begin \o parse \o spanStart
                    \o <<Call(rec, "Execute", "", NilBytes, execErr, FALSE, pj.job)>>
                    \o Front(ProcessorExecuteFailure(rec, msg, job, execErr, snsOK, FALSE))
                    \o spanEnd,
              killed |-> TRUE, seconds |-> ExecuteSeconds(pj.job)]
        ELSE IF execErr # NilErr
        THEN [calls |-> begin \o parse \o spanStart
                    \o <<Call(rec, "Execute", "", NilBytes, execErr, FALSE, pj.job)>>
                    \o ProcessorExecuteFailure(rec, msg, job, execErr, snsOK, dlqOK)
                    \o spanEnd
                    \o SpanOp(rec, "Return", "", failed),
              killed |-> FALSE, seconds |-> ExecuteSeconds(pj.job)]
        ELSE [calls |-> begin \o parse \o spanStart
                    \o <<Call(rec, "Execute", "", NilBytes, NilErr, TRUE, pj.job)>>
                    \o ProcessorSuccess(rec, job, snsOK)
                    \o spanEnd
                    \o SpanOp(rec, "Return", "", completed),
              killed |-> FALSE, seconds |-> ExecuteSeconds(pj.job)]

----------------------------------------------------------------------------
(* Spec: producers, the two queues and the two Lambda handlers *)

MaxEvents == 2
MaxBatch == 2

ValidReport ==
    JobValue(JStr(ReportGeneration),
        JObj(Obj2("report_name", JStr("Sales Report"), "filters", JStr("region=US"))))
ValidCleanup ==
    JobValue(JStr(DataCleanup), JObj(Obj2("target_table", JStr("users"), "retention", JNum(30))))
ValidOnboarding ==
    JobValue(JStr(UserOnboarding),
        JObj(Obj2("user_id", JStr("user-001"), "user_name", JStr("John Doe"))))
ValidLongRunning(timeout) ==
    JobValue(JStr(LongRunning), JObj(Obj2("task_name", JStr("backup"), "timeout", JNum(timeout))))
MissingTargetTable ==
    JobValue(JStr(DataCleanup), JObj(Obj2("target_table", JAbsent, "retention", JNum(30))))
RetentionAsString ==
    JobValue(JStr(DataCleanup),
        JObj(Obj2("target_table", JStr("users"), "retention", JStr("30"))))
UnknownJob == JobValue(JStr("unknown_job"), JObj(EmptyObj))

\* The EventBridge event as SQS delivers it: the job is the detail field.
Event(detail) == JObj(Obj2("detail", detail, "source", JStr("jobs")))

EventBodies ==
    {Text("compact", Event(d)) :
        d \in {ValidReport, ValidOnboarding, ValidLongRunning(500), ValidLongRunning(900),
               MissingTargetTable, RetentionAsString, UnknownJob, JAbsent}}
        \cup {Text("spaced", Event(ValidCleanup)), Garbage}

GoodToken == Traceparent([i \in 1..TraceIDLen |-> IF i = 1 THEN 255 ELSE i], [i \in 1..SpanIDLen |-> 16 * i])
Chars(c, n) == [i \in 1..n |-> c]

\* trace_context values a producer other than the ingester may write.
ForeignTokens ==
    { JAbsent,
      JChars(SubSeq(GoodToken, 1, 54)),
      JChars(<<"0", "1", "-">> \o SubSeq(GoodToken, 4, 55)),
      JChars(<<"0", "0", "-">> \o Chars("g", 32) \o SubSeq(GoodToken, 36, 55)),
      JChars(SubSeq(GoodToken, 1, 36) \o Chars("A", 16) \o SubSeq(GoodToken, 53, 55)),
      JChars(<<"0", "0", "-">> \o Chars("0", 32) \o SubSeq(GoodToken, 36, 55)),
      JChars(SubSeq(GoodToken, 1, 35) \o <<"x">> \o SubSeq(GoodToken, 37, 52) \o <<"x", "z", "z">>) }

\* Envelopes written to jobs-todo by a producer other than the ingester.
ForeignBodies ==
    {Text("compact", EnvelopeValue(ValidCleanup, JStr("67890"), JStr("2025-08-30T12:30:00Z"),
                                   JStr("IN_PROGRESS"), tc, EmptyObj)) : tc \in ForeignTokens}
        \cup {Text("compact", EnvelopeValue(om, JStr("67890"), JStr("2025-08-30T12:30:00Z"),
                                   JStr(StatusNew), JChars(<<>>), EmptyObj)) :
                 om \in {MissingTargetTable, RetentionAsString, UnknownJob}}
        \cup {Text("compact", EnvelopeValue(ValidCleanup, JNum(7), JStr("2025-08-30T12:30:00Z"),
                                   JStr(StatusNew), JAbsent, EmptyObj)),
              Text("compact", EnvelopeValue(ValidCleanup, JStr("12345"),
                                   JStr("2025-08-30T12:00:00Z"), JStr(StatusNew),
                                   JChars(GoodToken), EmptyObj)),
              Text("compact", EnvelopeValue(JAbsent, JStr("99999"),
                                   JStr("2025-08-30T13:00:00Z"), JStr("FAILED"), JAbsent,
                                   Obj2("job_type", JStr("unknown_job"), "message", JObj(EmptyObj)))),
              Garbage}

IngesterIds == <<"m1", "m2", "m3", "m4">>
JobsTodoIds == <<"t1", "t2", "t3", "t4">>
Now == "2025-08-30T12:00:00Z"

\* origin is history, not data the code sees: what the ingester's span was
\* when it wrote the message (NoOrigin for any other producer).
NoOrigin == [valid |-> FALSE]
SQSMessage(id, body, origin) ==
    [MessageId |-> id, Body |-> body, ReceiveCount |-> 0, origin |-> origin]

Init ==
    /\ message = NilBytes
    /\ ret = NoRet
    /\ first = NoRet
    /\ pc = "pipeline"
    /\ PipeIdle

\* A producer puts an event with source "jobs" on the bus; the rule forwards
\* it to ingester-queue.
PutEvent ==
    /\ produced < MaxEvents
    /\ \E body \in EventBodies :
          ingesterQueue' = Append(ingesterQueue,
                                  SQSMessage(IngesterIds[produced + 1], body, NoOrigin))
    /\ produced' = produced + 1
    /\ UNCHANGED <<jobsTodo, redriven, ingester, processor>>
    /\ UNCHANGED parseVars

\* Some other producer writes straight to jobs-todo.
SendForeign ==
    /\ produced < MaxEvents
    /\ \E body \in ForeignBodies :
          jobsTodo' = Append(jobsTodo, SQSMessage(JobsTodoIds[produced + 1], body, NoOrigin))
    /\ produced' = produced + 1
    /\ UNCHANGED <<ingesterQueue, redriven, ingester, processor>>
    /\ UNCHANGED parseVars

Min(a, b) == IF a < b THEN a ELSE b
Received(q, n) == [k \in 1..n |-> [q[k] EXCEPT !.ReceiveCount = @ + 1]]

\* The event source mapping hands a batch to the ingester's handler, which
\* starts the span "ProcessSQSEvent".
IngesterInvoke ==
    /\ ingester.state # "running"
    /\ ingesterQueue # <<>>
    /\ \E n \in 1..Min(MaxBatch, Len(ingesterQueue)), tid \in TraceIDs :
          /\ ingester' = [state |-> "running", Records |-> Received(ingesterQueue, n),
                          i |-> 1, calls |-> <<>>, result |-> "none", elapsed |-> 0,
                          TraceID |-> tid, unrouted |-> 0]
          /\ ingesterQueue' = SubSeq(ingesterQueue, n + 1, Len(ingesterQueue))
    /\ UNCHANGED <<jobsTodo, redriven, processor, produced>>
    /\ UNCHANGED parseVars

\* Mutant: the loop is left at the first message that is not forwarded.
IngesterStepStopsAtFailure ==
    /\ ingester.state = "running"
    /\ ingester.i <= Len(ingester.Records)
    /\ \E sid \in SpanIDs, sendOK \in BOOLEAN, snsOK \in BOOLEAN, dlqOK \in BOOLEAN :
          LET msg == ingester.Records[ingester.i]
              r == IngesterProcessMessage(ingester.i, msg, ingester.TraceID, sid, Now,
                                          sendOK, snsOK, dlqOK)
              origin == [valid |-> TRUE, TraceID |-> ingester.TraceID, SpanID |-> sid,
                         MessageId |-> msg.MessageId]
          IN  /\ ingester' = [ingester EXCEPT
                                 !.i = IF r.out = <<>> THEN Len(ingester.Records) + 1
                                       ELSE @ + 1,
                                 !.calls = @ \o r.calls]
              /\ jobsTodo' = jobsTodo \o
                    [k \in 1..Len(r.out) |->
                        SQSMessage(JobsTodoIds[CHOOSE j \in 1..Len(IngesterIds) :
                                                   IngesterIds[j] = msg.MessageId],
                                   r.out[k], origin)]
    /\ UNCHANGED <<ingesterQueue, redriven, processor, produced>>
    /\ UNCHANGED parseVars

\* One iteration of the ingester handler's loop: processMessage(ctx, message);
\* oks are the outcomes the queue sends and the publish may have.
IngesterLoopBody(oks) ==
    /\ ingester.state = "running"
    /\ ingester.i <= Len(ingester.Records)
    /\ \E sid \in SpanIDs, sendOK \in oks, snsOK \in oks, dlqOK \in oks :
          LET msg == ingester.Records[ingester.i]
              r == IngesterProcessMessage(ingester.i, msg, ingester.TraceID, sid, Now,
                                          sendOK, snsOK, dlqOK)
              origin == [valid |-> TRUE, TraceID |-> ingester.TraceID, SpanID |-> sid,
                         MessageId |-> msg.MessageId]
          IN  /\ ingester' = [ingester EXCEPT !.i = @ + 1, !.calls = @ \o r.calls]
              /\ jobsTodo' = jobsTodo \o
                    [k \in 1..Len(r.out) |->
                        SQSMessage(JobsTodoIds[CHOOSE j \in 1..Len(IngesterIds) :
                                                   IngesterIds[j] = msg.MessageId],
                                   r.out[k], origin)]
    /\ UNCHANGED <<ingesterQueue, redriven, processor, produced>>
    /\ UNCHANGED parseVars

IngesterStep == IngesterLoopBody(BOOLEAN)

\* The same iteration when every send and publish succeeds.
IngesterStepAllSucceed == IngesterLoopBody({TRUE})

\* The records of an invocation for which both the notification and the
\* dead-letter send failed (kept, as a number, after the handler returned).
Unrouted(stage) ==
    Cardinality({rec \in 1..Len(stage.Records) :
        /\ \E k \in 1..Len(stage.calls) :
              /\ stage.calls[k].rec = rec
              /\ stage.calls[k].op = "Publish"
              /\ ~stage.calls[k].ok
        /\ \E k \in 1..Len(stage.calls) :
              /\ stage.calls[k].rec = rec
              /\ stage.calls[k].op = "SendDeadLetter"
              /\ ~stage.calls[k].ok})

\* Mutant: the handler returns an error when a message could not be routed,
\* and SQS makes the batch visible again.
IngesterReturnsErrorWhenUnrouted ==
    /\ ingester.state = "running"
    /\ ingester.i > Len(ingester.Records)
    /\ ingester' = [Idle EXCEPT !.state = "returned",
                                !.result = IF Unrouted(ingester) > 0 THEN "error" ELSE "nil",
                                !.unrouted = Unrouted(ingester)]
    /\ ingesterQueue' = IF Unrouted(ingester) > 0 THEN ingester.Records \o ingesterQueue
                        ELSE ingesterQueue
    /\ UNCHANGED <<jobsTodo, redriven, processor, produced>>
    /\ UNCHANGED parseVars

\* The ingester handler returns nil; the batch is deleted from the queue and
\* the invocation's record of calls ends with it.
IngesterReturn ==
    /\ ingester.state = "running"
    /\ ingester.i > Len(ingester.Records)
    /\ ingester' = [Idle EXCEPT !.state = "returned", !.result = "nil",
                                !.unrouted = Unrouted(ingester)]
    /\ UNCHANGED <<ingesterQueue, jobsTodo, redriven, processor, produced>>
    /\ UNCHANGED parseVars

ProcessorInvoke ==
    /\ processor.state \notin {"running", "killed"}
    /\ jobsTodo # <<>>
    /\ \E n \in 1..Min(MaxBatch, Len(jobsTodo)) :
          /\ \A k \in 1..n : jobsTodo[k].ReceiveCount < MaxReceiveCount
          /\ processor' = [state |-> "running", Records |-> Received(jobsTodo, n),
                           i |-> 1, calls |-> <<>>, result |-> "none", elapsed |-> 0,
                           TraceID |-> <<>>, unrouted |-> 0]
          /\ jobsTodo' = SubSeq(jobsTodo, n + 1, Len(jobsTodo))
    /\ UNCHANGED <<ingesterQueue, redriven, ingester, produced>>
    /\ UNCHANGED parseVars

\* What parsedJob.Execute() may return: the four kinds of this package return
\* Execute(j); any says the Job is taken as the interface, whose Execute may
\* return an error.
ExecErr == <<"execution failed">>
ExecuteResults(j, any) == IF any THEN {NilErr, ExecErr} ELSE {Execute(j)}

\* One iteration of the processor handler's loop: processMessage(ctx, message).
ProcessorLoopBody(any, oks) ==
    /\ processor.state = "running"
    /\ processor.i <= Len(processor.Records)
    /\ \E snsOK \in oks, dlqOK \in oks, nilCtxPanics \in BOOLEAN,
          execErr \in ExecuteResults(EmbeddedJob(processor.Records[processor.i]), any) :
          LET msg == processor.Records[processor.i]
              r == ProcessorProcessMessage(processor.i, msg, processor.elapsed, execErr,
                                           nilCtxPanics, snsOK, dlqOK)
          IN  processor' = [processor EXCEPT
                                !.state = IF r.killed THEN "killed" ELSE "running",
                                !.i = IF r.killed THEN @ ELSE @ + 1,
                                !.calls = @ \o r.calls,
                                !.elapsed = IF r.killed THEN LambdaTimeout ELSE @ + r.seconds]
    /\ UNCHANGED <<ingesterQueue, jobsTodo, redriven, ingester, produced>>
    /\ UNCHANGED parseVars

ProcessorStep == ProcessorLoopBody(FALSE, BOOLEAN)

\* The same iteration for a Job whose Execute may fail.
ProcessorStepAnyExecute == ProcessorLoopBody(TRUE, BOOLEAN)

\* The same iteration when every send and publish succeeds.
ProcessorStepAllSucceed == ProcessorLoopBody(FALSE, {TRUE})

\* The processor handler returns nil; the batch is deleted from the queue.
ProcessorReturn ==
    /\ processor.state = "running"
    /\ processor.i > Len(processor.Records)
    /\ processor' = [Idle EXCEPT !.state = "returned", !.result = "nil",
                                 !.unrouted = Unrouted(processor)]
    /\ UNCHANGED <<ingesterQueue, jobsTodo, redriven, ingester, produced>>
    /\ UNCHANGED parseVars

\* The invocation ran into the function timeout (or ended in a panic): nothing
\* is deleted, and the whole batch becomes visible on jobs-todo again.
ProcessorTimedOut ==
    /\ processor.state = "killed"
    /\ processor' = [Idle EXCEPT !.state = "timedout", !.result = "timeout"]
    /\ jobsTodo' = processor.Records \o jobsTodo
    /\ UNCHANGED <<ingesterQueue, redriven, ingester, produced>>
    /\ UNCHANGED parseVars

\* Redrive policy of jobs-todo: a message received maxReceiveCount times is
\* moved to the dead-letter queue by SQS itself.
Redrive ==
    /\ jobsTodo # <<>>
    /\ jobsTodo[1].ReceiveCount >= MaxReceiveCount
    /\ redriven' = Append(redriven, jobsTodo[1])
    /\ jobsTodo' = Tail(jobsTodo)
    /\ UNCHANGED <<ingesterQueue, ingester, processor, produced>>
    /\ UNCHANGED parseVars

Next ==
    \/ PutEvent
    \/ SendForeign
    \/ IngesterInvoke
    \/ IngesterStep
    \/ IngesterReturn
    \/ ProcessorInvoke
    \/ ProcessorStep
    \/ ProcessorReturn
    \/ ProcessorTimedOut
    \/ Redrive

Spec == Init /\ [][Next]_vars

\* The processing stage alone, fed by any producer, with the processor's
\* jobs taken as the Job interface.
NextAnyExecute ==
    \/ SendForeign
    \/ ProcessorInvoke
    \/ ProcessorStepAnyExecute
    \/ ProcessorReturn
    \/ ProcessorTimedOut
    \/ Redrive

SpecAnyExecute == Init /\ [][NextAnyExecute]_vars

\* The pipeline fed by the event bus alone, when every queue send and every
\* publish succeeds.  The event source mappings poll their queues for as long
\* as the functions exist, a started handler runs its loop to the end, the
\* runtime ends an invocation that is over its timeout, and SQS applies the
\* redrive policy: each of these steps happens if it stays possible.
NextLive ==
    \/ PutEvent
    \/ IngesterInvoke
    \/ IngesterStepAllSucceed
    \/ IngesterReturn
    \/ ProcessorInvoke
    \/ ProcessorStepAllSucceed
    \/ ProcessorReturn
    \/ ProcessorTimedOut
    \/ Redrive

\* When a loop body can run: ENABLED of the step, which always changes i or
\* the state of the invocation.
IngesterLoopRunning == ingester.state = "running" /\ ingester.i <= Len(ingester.Records)
ProcessorLoopRunning == processor.state = "running" /\ processor.i <= Len(processor.Records)

\* Weak fairness of every step of the pipeline; for the two loop bodies it is
\* written out with the enabling condition above in place of ENABLED.
SpecLive ==
    /\ Init
    /\ [][NextLive]_vars
    /\ WF_vars(IngesterInvoke)
    /\ ([]<>~IngesterLoopRunning \/ []<><<IngesterStepAllSucceed>>_vars)
    /\ WF_vars(IngesterReturn)
    /\ WF_vars(ProcessorInvoke)
    /\ ([]<>~ProcessorLoopRunning \/ []<><<ProcessorStepAllSucceed>>_vars)
    /\ WF_vars(ProcessorReturn)
    /\ WF_vars(ProcessorTimedOut)
    /\ WF_vars(Redrive)

----------------------------------------------------------------------------
(* What an input is, read off its text alone (no use of the parser) *)

IsObject(msg) == msg.syn = "ok" /\ msg.v.t = "obj"
InJobType(msg) == Field(msg.v, "job_type")
InMessage(msg) == Field(msg.v, "message")
HasKnownType(msg) ==
    /\ IsObject(msg)
    /\ InJobType(msg).t = "str"
    /\ InJobType(msg).s \in KnownJobTypes

\* The two fields of each kind; int2 says the second one is an integer.
SchemaOf(jt) ==
    CASE jt = ReportGeneration -> [k1 |-> "report_name", k2 |-> "filters", int2 |-> FALSE]
      [] jt = DataCleanup -> [k1 |-> "target_table", k2 |-> "retention", int2 |-> TRUE]
      [] jt = UserOnboarding -> [k1 |-> "user_id", k2 |-> "user_name", int2 |-> FALSE]
      [] jt = LongRunning -> [k1 |-> "task_name", k2 |-> "timeout", int2 |-> TRUE]

FitsStr(val) == val.t \in {"absent", "null", "str"}
FitsInt(val) == val.t \in {"absent", "null", "num"}
GoodStr(val) == val.t = "str" /\ val.s # ""
GoodInt(val) == val.t = "num" /\ val.n > 0

ShapeOK(msg) ==
    LET m == InMessage(msg)
        sch == SchemaOf(InJobType(msg).s)
    IN  \/ m.t = "null"
        \/ /\ m.t = "obj"
           /\ FitsStr(Field(m, sch.k1))
           /\ IF sch.int2 THEN FitsInt(Field(m, sch.k2)) ELSE FitsStr(Field(m, sch.k2))

WellFormed(msg) ==
    /\ HasKnownType(msg)
    /\ LET m == InMessage(msg)
           sch == SchemaOf(InJobType(msg).s)
       IN  /\ m.t = "obj"
           /\ GoodStr(Field(m, sch.k1))
           /\ IF sch.int2 THEN GoodInt(Field(m, sch.k2)) ELSE GoodStr(Field(m, sch.k2))

ShapeMismatch(msg) == HasKnownType(msg) /\ ~ShapeOK(msg)
FailsValidation(msg) == HasKnownType(msg) /\ ShapeOK(msg) /\ ~WellFormed(msg)

ExpectedJob(msg) ==
    LET jt == InJobType(msg).s
        f == InMessage(msg).f
    IN  CASE jt = ReportGeneration -> ReportGenerationJob(f.report_name.s, f.filters.s)
          [] jt = DataCleanup -> DataCleanupJob(f.target_table.s, f.retention.n)
          [] jt = UserOnboarding -> UserOnboardingJob(f.user_id.s, f.user_name.s)
          [] jt = LongRunning -> LongRunningJob(f.task_name.s, f.timeout.n)

JobFieldsValid(j) ==
    CASE j.kind = "ReportGenerationJob" -> j.ReportName # "" /\ j.Filters # ""
      [] j.kind = "DataCleanupJob" -> j.TargetTable # "" /\ j.Retention > 0
      [] j.kind = "UserOnboardingJob" -> j.UserID # "" /\ j.UserName # ""
      [] j.kind = "LongRunningJob" -> j.TaskName # "" /\ j.Timeout > 0
      [] OTHER -> FALSE

----------------------------------------------------------------------------
(* Properties of ParseJob and ParseEnrichedPayload (checked under SpecParse) *)

\* C1: for every input whose job_type is one of the four known kinds and whose
\* message carries all required fields with valid values, ParseJob returns the
\* job of the matching kind with the input's field values, the exact input
\* bytes as original message, the job type equal to job_type, and no error.
C1_WellFormedAccepted ==
    (pc = "ParseJob" /\ WellFormed(message)) =>
        ret = Ret(ExpectedJob(message), message, <<InJobType(message).s>>, NilErr)

C1_Witness ==
    /\ pc = "ParseJob"
    /\ WellFormed(message)
    /\ message.form = "spaced"
    /\ ret.job = LongRunningJob("backup", 900)
    /\ ret.orig = message

\* C2: for every input whose job_type is not one of the four known kinds,
\* ParseJob returns a nil Job, nil original bytes, a nil job type and a
\* non-nil error.
C2_UnknownTypeRejected ==
    (pc = "ParseJob" /\ ~HasKnownType(message)) =>
        /\ ret.job = NilJob
        /\ ret.orig = NilBytes
        /\ ret.jobType = NilPtr
        /\ ret.err # NilErr

C2_Witness ==
    /\ pc = "ParseJob"
    /\ IsObject(message)
    /\ InJobType(message) = JStr("unknown_job")
    /\ InMessage(message) = JObj(EmptyObj)
    /\ ret.err = <<"unknown job type">>

\* C3: for every input with a known job_type whose message does not
\* deserialize into that kind's field shape, ParseJob returns a nil Job, the
\* raw input bytes, the resolved job type and a non-nil error.
C3_ShapeMismatchKeepsTypeAndBytes ==
    (pc = "ParseJob" /\ ShapeMismatch(message)) =>
        /\ ret.job = NilJob
        /\ ret.orig = message
        /\ ret.jobType = <<InJobType(message).s>>
        /\ ret.err # NilErr

C3_Witness ==
    /\ pc = "ParseJob"
    /\ ShapeMismatch(message)
    /\ InJobType(message).s = DataCleanup
    /\ InMessage(message).t = "obj"
    /\ Field(InMessage(message), "retention") = JStr("30")
    /\ ret.orig = message
    /\ ret.err # NilErr

\* C4: for every input with a known job_type whose message has the right
\* shape but violates a validation rule (a missing required field included),
\* ParseJob returns a nil Job, nil original bytes, the resolved job type and
\* a non-nil error.
C4_ValidationFailureKeepsTypeOnly ==
    (pc = "ParseJob" /\ FailsValidation(message)) =>
        /\ ret.job = NilJob
        /\ ret.orig = NilBytes
        /\ ret.jobType = <<InJobType(message).s>>
        /\ ret.err # NilErr

C4_Witness ==
    /\ pc = "ParseJob"
    /\ FailsValidation(message)
    /\ InJobType(message).s = DataCleanup
    /\ Field(InMessage(message), "target_table") = JStr("users")
    /\ Field(InMessage(message), "retention") = JNum(0)
    /\ ret.err = <<"job validation failed", "retention must be greater than 0">>

\* C5: ParseJob returns a non-nil Job if and only if it returns no error, and
\* every Job it returns passes its own Validate; a non-nil Job and a non-nil
\* error are never returned together.
C5_JobIffNoError ==
    pc = "ParseJob" =>
        /\ (ret.job # NilJob) <=> (ret.err = NilErr)
        /\ ret.job # NilJob => (Validate(ret.job) = NilErr /\ JobFieldsValid(ret.job))

C5_Witness ==
    /\ pc = "ParseJob"
    /\ ret.job # NilJob
    /\ ret.job.kind = "UserOnboardingJob"
    /\ ret.err = NilErr

\* The envelope read off the text alone.
EnvelopeDecodes(msg) ==
    /\ msg.syn = "ok"
    /\ msg.v.t \in {"null", "obj"}
    /\ msg.v.t = "obj" =>
          \A k \in {"id", "timestamp", "status", "trace_context"} : FitsStr(Field(msg.v, k))
EmbeddedBytes(msg) ==
    IF msg.v.t = "obj" /\ "originalmessage" \in DOMAIN msg.v.f
    THEN Text(msg.form, msg.v.f.originalmessage)
    ELSE NilBytes
StrOf(msg, k) ==
    IF msg.v.t = "obj" /\ Field(msg.v, k).t = "str" THEN Field(msg.v, k).s ELSE ""

\* C6: ParseEnrichedPayload returns an error exactly when the envelope does
\* not deserialize or ParseJob fails on its originalmessage; the job type is
\* the one ParseJob returned (nil for an undecodable envelope); on success it
\* returns ParseJob's Job and the envelope with the input's id, timestamp,
\* status and originalmessage.
C6_EnrichedDelegatesToParseJob ==
    pc = "ParseEnrichedPayload" =>
        LET inner == ParseJob(EmbeddedBytes(message))
        IN  /\ (ret.err # NilErr) <=> (~EnvelopeDecodes(message) \/ inner.err # NilErr)
            /\ ret.jobType = IF EnvelopeDecodes(message) THEN inner.jobType ELSE NilPtr
            /\ ret.err # NilErr => (ret.job = NilJob /\ ret.payload = NilPayload)
            /\ ret.err = NilErr =>
                  /\ ret.job = inner.job
                  /\ ret.job # NilJob
                  /\ ret.payload.ID = StrOf(message, "id")
                  /\ ret.payload.Timestamp = StrOf(message, "timestamp")
                  /\ ret.payload.Status = StrOf(message, "status")
                  /\ ret.payload.OriginalMessage = EmbeddedBytes(message)

\* An envelope without originalmessage but with job_type/message at top level
\* is rejected with no job type.
C6_Witness ==
    /\ pc = "ParseEnrichedPayload"
    /\ IsObject(message)
    /\ "originalmessage" \notin DOMAIN message.v.f
    /\ "job_type" \in DOMAIN message.v.f
    /\ "id" \in DOMAIN message.v.f
    /\ EnvelopeDecodes(message)
    /\ ret.err # NilErr
    /\ ret.jobType = NilPtr

\* C7: round trip: for every valid job, building an EnrichedPayload around
\* its raw envelope, serializing it and passing the bytes through
\* ParseEnrichedPayload yields a Job of the same kind, equal in all fields to
\* the job ParseJob derives from the raw envelope.
C7_RoundTrip ==
    pc = "roundtrip" =>
        /\ ret.err = NilErr
        /\ ret.job = first.ret.job
        /\ ret.job.kind = first.ret.job.kind
        /\ ret.job = ExpectedJob(first.input)

\* The raw envelope was written with white space, so the serialized envelope
\* does not hold its bytes verbatim, and the job still comes back.
C7_Witness ==
    /\ pc = "roundtrip"
    /\ first.input.form = "spaced"
    /\ ret.payload.OriginalMessage # first.input
    /\ ret.job = DataCleanupJob("users", 30)

\* An input that does not deserialize into {job_type, message}: no bytes,
\* bytes that are not JSON, a JSON value that is neither an object nor null,
\* or an object whose job_type is not a string.
StructurallyInvalid(msg) ==
    \/ msg.syn # "ok"
    \/ msg.v.t \notin {"obj", "null"}
    \/ msg.v.t = "obj" /\ ~FitsStr(InJobType(msg))

\* C21: ParseJob on a structurally invalid envelope (bytes that do not
\* deserialize into {job_type, message}, empty input included) returns a
\* non-nil parse error ("failed to parse job message: ...") with a nil Job,
\* nil original bytes and a nil job type.
C21_InvalidEnvelopeAllNil ==
    (pc = "ParseJob" /\ StructurallyInvalid(message)) =>
        /\ ret.err # NilErr
        /\ ret.err[1] = "failed to parse job message"
        /\ ret.job = NilJob
        /\ ret.orig = NilBytes
        /\ ret.jobType = NilPtr

\* ParseJob was handed no bytes at all.
C21_Witness ==
    /\ pc = "ParseJob"
    /\ message = NilBytes
    /\ ret.err # NilErr
    /\ ret.err[1] = "failed to parse job message"

\* C22: Validate returns no error exactly when a ReportGeneration job has a
\* non-empty report_name and filters, a DataCleanup job a non-empty
\* target_table and a retention greater than 0, a UserOnboarding job a
\* non-empty user_id and user_name, a LongRunning job a non-empty task_name
\* and a timeout greater than 0; every other combination, zero and negative
\* numbers included, returns an error.
C22_ValidateExactly ==
    pc = "Validate" => (ret.err = NilErr <=> JobFieldsValid(first.job))

\* A LongRunning job with a task name and a timeout of 0 is rejected.
C22_Witness ==
    /\ pc = "Validate"
    /\ first.job = LongRunningJob("x", 0)
    /\ ret.err = <<"timeout must be greater than 0">>

----------------------------------------------------------------------------
(* Properties of the two stages (checked under Spec) *)

\* The calls of a stage made for record rec, by operation.
CallsFor(stage, rec, op) ==
    {k \in 1..Len(stage.calls) : stage.calls[k].rec = rec /\ stage.calls[k].op = op}

\* Records whose processMessage has been entered in the running invocation.
Entered(stage) ==
    {rec \in 1..Len(stage.Records) :
        rec < stage.i \/ (stage.state = "killed" /\ rec = stage.i)}

TokenOf(body) ==
    IF body.syn = "ok" /\ Field(body.v, "trace_context").t = "str"
    THEN Field(body.v, "trace_context").c
    ELSE <<>>

\* C8: for every trace-id/span-id pair of the ingestion span, the token the
\* ingestion stage writes into trace_context is "00-" + 32 hex + "-" + 16 hex
\* + "-01" (55 characters), and the processing stage decodes it into the same
\* trace id and span id, which are the remote parent of the execution span.
C8_TokenRoundTrip ==
    /\ \A m \in {jobsTodo[k] : k \in 1..Len(jobsTodo)}
               \cup {processor.Records[k] : k \in 1..Len(processor.Records)} :
          m.origin.valid =>
              LET tc == TokenOf(m.Body)
              IN  /\ Len(tc) = 55
                  /\ SubSeq(tc, 1, 3) = <<"0", "0", "-">>
                  /\ tc[36] = "-"
                  /\ SubSeq(tc, 53, 55) = <<"-", "0", "1">>
                  /\ \A i \in (4..35) \cup (37..52) : tc[i] \in HexDigits
                  /\ HexBytes(SubSeq(tc, 4, 35)) = m.origin.TraceID
                  /\ HexBytes(SubSeq(tc, 37, 52)) = m.origin.SpanID
    /\ \A rec \in Entered(processor) :
          processor.Records[rec].origin.valid =>
              \E k \in CallsFor(processor, rec, "SpanStart") :
                  processor.calls[k].arg.parent =
                      [valid |-> TRUE,
                       TraceID |-> processor.Records[rec].origin.TraceID,
                       SpanID |-> processor.Records[rec].origin.SpanID,
                       Sampled |-> TRUE, Remote |-> TRUE]

C8_Witness ==
    \E rec \in Entered(processor) :
        /\ processor.Records[rec].origin.valid
        /\ processor.Records[rec].origin.TraceID[TraceIDLen] = 171
        /\ \E k \in CallsFor(processor, rec, "SpanStart") :
              /\ processor.calls[k].arg.parent.valid
              /\ processor.calls[k].arg.parent.TraceID[TraceIDLen] = 171
              /\ processor.calls[k].arg.parent.SpanID[1] = 1

Unlinkable(tc) == tc = <<>> \/ Len(tc) # 55 \/ SubSeq(tc, 1, 3) # <<"0", "0", "-">>

\* C9: in the processing stage an envelope whose trace_context is empty, is
\* not 55 characters long or does not begin with "00-" has no parent trace:
\* nothing fails because of the token, and processing goes on to the re-parse
\* and to Execute with an unlinked execution span.
C9_UnlinkableTokenContinues ==
    \A rec \in Entered(processor) :
        LET body == processor.Records[rec].Body
            pj == ParseJob(EmbeddedBytes(body))
        IN  (EnvelopeDecodes(body) /\ Unlinkable(TokenOf(body))) =>
                /\ \A k \in CallsFor(processor, rec, "Log") :
                      processor.calls[k].text
                          # "Failed to parse trace ID or span ID from traceparent"
                /\ pj.err = NilErr =>
                      /\ \E k \in CallsFor(processor, rec, "SpanStart") :
                            processor.calls[k].arg.parent = [valid |-> FALSE]
                      /\ \E k \in CallsFor(processor, rec, "Execute") :
                            processor.calls[k].arg = pj.job
                      /\ CallsFor(processor, rec, "SendDeadLetter") = {}
                      /\ \A k \in CallsFor(processor, rec, "Publish") :
                            processor.calls[k].text = "successfully executed job"
                /\ pj.err # NilErr =>
                      /\ CallsFor(processor, rec, "Publish") # {}
                      /\ \A k \in CallsFor(processor, rec, "Publish") :
                            /\ processor.calls[k].text = "failed to parse job"
                            /\ processor.calls[k].err = pj.err

C9_Witness ==
    \E rec \in Entered(processor) :
        /\ EnvelopeDecodes(processor.Records[rec].Body)
        /\ Len(TokenOf(processor.Records[rec].Body)) = 54
        /\ \E k \in CallsFor(processor, rec, "SpanStart") :
              processor.calls[k].arg.parent = [valid |-> FALSE]
        /\ \E k \in CallsFor(processor, rec, "Publish") :
              /\ processor.calls[k].text = "successfully executed job"
              /\ processor.calls[k].arg.Status = "COMPLETED"

\* The job bytes of an ingester record, read off the SQS body.
DetailOf(body) ==
    IF body.syn = "ok" /\ Field(body.v, "detail").t # "absent"
    THEN Text(body.form, Field(body.v, "detail"))
    ELSE NilBytes

\* C10: ingestion stage: whenever ParseJob fails on the raw job bytes, a
\* failure notification carrying the raw bytes and the error text is
\* published, the raw job bytes are placed on the dead-letter destination,
\* nothing is sent to the second-stage queue for that message, and the
\* handler goes on to the next message of the batch.
C10_IngestParseFailureRouted ==
    \A rec \in Entered(ingester) :
        LET body == ingester.Records[rec].Body
            pj == ParseJob(DetailOf(body))
        IN  (body.syn = "ok" /\ body.v.t = "obj" /\ pj.err # NilErr) =>
                /\ \E k \in CallsFor(ingester, rec, "Publish") :
                      /\ ingester.calls[k].body = DetailOf(body)
                      /\ ingester.calls[k].err = pj.err
                /\ \E k \in CallsFor(ingester, rec, "SendDeadLetter") :
                      ingester.calls[k].body = DetailOf(body)
                /\ CallsFor(ingester, rec, "SendJobsTodo") = {}
                /\ CallsFor(ingester, rec, "Return") # {}
                /\ ingester.state = "running"

\* What the ingester does do when ParseJob fails: the same, except that the
\* notification holds the raw bytes only.
IngestParseFailureRoutedWithoutErrorText ==
    \A rec \in Entered(ingester) :
        LET body == ingester.Records[rec].Body
            pj == ParseJob(DetailOf(body))
        IN  (body.syn = "ok" /\ body.v.t = "obj" /\ pj.err # NilErr) =>
                /\ \E k \in CallsFor(ingester, rec, "Publish") :
                      /\ ingester.calls[k].body = DetailOf(body)
                      /\ ingester.calls[k].err = NilErr
                /\ \E k \in CallsFor(ingester, rec, "SendDeadLetter") :
                      ingester.calls[k].body = DetailOf(body)
                /\ CallsFor(ingester, rec, "SendJobsTodo") = {}
                /\ CallsFor(ingester, rec, "Return") # {}
                /\ ingester.state = "running"

\* The envelope of call k, submitted for record rec of the ingester: exact
\* says whether originalmessage is compared byte for byte or as a JSON value.
SubmittedEnvelopeOK(rec, k, exact) ==
    LET msg == ingester.Records[rec]
        detail == DetailOf(msg.Body)
        env == ingester.calls[k].body
        tc == TokenOf(env)
    IN  /\ EnvelopeDecodes(env)
        /\ IF exact THEN EmbeddedBytes(env) = detail
                    ELSE EmbeddedBytes(env).v = detail.v
        /\ StrOf(env, "id") = msg.MessageId
        /\ StrOf(env, "status") = "NEW"
        /\ StrOf(env, "timestamp") \in Timestamps
        /\ \E j \in CallsFor(ingester, rec, "SpanStart") :
              /\ j < k
              /\ Len(tc) = 55
              /\ HexBytes(SubSeq(tc, 4, 35)) = ingester.calls[j].arg.TraceID
              /\ HexBytes(SubSeq(tc, 37, 52)) = ingester.calls[j].arg.SpanID

IngestSubmitsOneEnvelope(exact) ==
    /\ \A rec \in Entered(ingester) :
          LET body == ingester.Records[rec].Body
          IN  (IsObject(body) /\ ParseJob(DetailOf(body)).err = NilErr) =>
                  /\ Cardinality(CallsFor(ingester, rec, "SendJobsTodo")) = 1
                  /\ \A k \in CallsFor(ingester, rec, "SendJobsTodo") :
                        SubmittedEnvelopeOK(rec, k, exact)
    /\ \A k \in 1..Len(jobsTodo) :
          jobsTodo[k].origin.valid =>
              /\ StrOf(jobsTodo[k].Body, "status") = "NEW"
              /\ ParseJob(EmbeddedBytes(jobsTodo[k].Body)).err = NilErr

\* C11: ingestion stage: for every raw event whose job bytes pass ParseJob,
\* exactly one envelope is submitted to the second-stage queue, with
\* originalmessage equal to the exact input job bytes, id equal to the
\* transport message id, status NEW, an RFC3339 timestamp and a trace_context
\* token encoding the current span's trace id and span id; every envelope the
\* ingestion stage places on the second-stage queue has status NEW and embeds
\* a payload that passes ParseJob.
C11_IngestSubmitsOneVerbatimEnvelope == IngestSubmitsOneEnvelope(TRUE)

\* What the ingester does submit: the same, with originalmessage holding the
\* JSON value of the input job bytes (json.Marshal compacts a RawMessage).
IngestSubmitsOneEnvelopeSameValue == IngestSubmitsOneEnvelope(FALSE)

\* C12: ingestion stage: when submitting the envelope to the second-stage
\* queue fails, a failure notification is published and the payload placed on
\* the dead-letter destination is the original raw job bytes, not the
\* serialized envelope; the submission is not retried within the invocation.
C12_SendFailureDeadLettersRawBytes ==
    \A rec \in Entered(ingester) :
        \A k \in CallsFor(ingester, rec, "SendJobsTodo") :
            ~ingester.calls[k].ok =>
                /\ \E p \in CallsFor(ingester, rec, "Publish") :
                      /\ p > k
                      /\ ingester.calls[p].text = "failed to send message to jobs-todo queue"
                /\ \E d \in CallsFor(ingester, rec, "SendDeadLetter") :
                      /\ d > k
                      /\ ingester.calls[d].body = DetailOf(ingester.Records[rec].Body)
                /\ \A d \in CallsFor(ingester, rec, "SendDeadLetter") :
                      ingester.calls[d].body # ingester.calls[k].body
                /\ Cardinality(CallsFor(ingester, rec, "SendJobsTodo")) = 1
                /\ \A j \in 1..Len(jobsTodo) :
                      jobsTodo[j].origin.valid =>
                          jobsTodo[j].origin.MessageId # ingester.Records[rec].MessageId

C12_Witness ==
    \E rec \in Entered(ingester) :
        /\ \E k \in CallsFor(ingester, rec, "SendJobsTodo") :
              /\ ~ingester.calls[k].ok
              /\ StrOf(ingester.calls[k].body, "status") = "NEW"
        /\ \E d \in CallsFor(ingester, rec, "SendDeadLetter") :
              /\ ingester.calls[d].body = DetailOf(ingester.Records[rec].Body)
              /\ ParseJob(ingester.calls[d].body).job = LongRunningJob("backup", 500)

\* C13: processing stage: when the queue message body does not deserialize
\* into an EnrichedPayload, a failure notification is published, the raw
\* message body is placed unchanged on the dead-letter destination, and
\* processing of that message stops without ParseJob or Execute being invoked.
C13_UndecodableBodyRouted ==
    \A rec \in Entered(processor) :
        LET body == processor.Records[rec].Body
        IN  ~EnvelopeDecodes(body) =>
                /\ \E p \in CallsFor(processor, rec, "Publish") :
                      /\ processor.calls[p].text = "failed to parse job message"
                      /\ processor.calls[p].body = body
                      /\ processor.calls[p].err # NilErr
                      /\ \E d \in CallsFor(processor, rec, "SendDeadLetter") :
                            d > p /\ processor.calls[d].body = body
                /\ Cardinality(CallsFor(processor, rec, "Publish")) = 1
                /\ Cardinality(CallsFor(processor, rec, "SendDeadLetter")) = 1
                /\ CallsFor(processor, rec, "ParseJob") = {}
                /\ CallsFor(processor, rec, "SpanStart") = {}
                /\ CallsFor(processor, rec, "Execute") = {}
                /\ CallsFor(processor, rec, "Return") # {}

\* The body is an object whose id is a number.
C13_Witness ==
    \E rec \in Entered(processor) :
        /\ IsObject(processor.Records[rec].Body)
        /\ Field(processor.Records[rec].Body.v, "id") = JNum(7)
        /\ \E d \in CallsFor(processor, rec, "SendDeadLetter") :
              /\ processor.calls[d].body = processor.Records[rec].Body
              /\ ~processor.calls[d].ok
        /\ CallsFor(processor, rec, "Return") # {}

\* C14: processing stage: Execute is invoked only on a Job that ParseJob
\* re-derived and re-validated from the envelope's embedded original bytes in
\* this same invocation; whenever that re-parse fails, a failure notification
\* is published, the message body is dead-lettered and Execute is never
\* invoked, whatever path put the envelope on the queue.
C14_ExecuteOnlyAfterReparse ==
    \A rec \in Entered(processor) :
        LET body == processor.Records[rec].Body
        IN  /\ \A e \in CallsFor(processor, rec, "Execute") :
                  \E q \in CallsFor(processor, rec, "ParseJob") :
                      /\ q < e
                      /\ processor.calls[q].body = EmbeddedBytes(body)
                      /\ processor.calls[q].err = NilErr
                      /\ processor.calls[e].arg = ParseJob(EmbeddedBytes(body)).job
                      /\ processor.calls[e].arg # NilJob
                      /\ JobFieldsValid(processor.calls[e].arg)
            /\ \A q \in CallsFor(processor, rec, "ParseJob") :
                  processor.calls[q].err # NilErr =>
                      /\ \E p \in CallsFor(processor, rec, "Publish") :
                            /\ p > q
                            /\ processor.calls[p].text = "failed to parse job"
                            /\ processor.calls[p].err = processor.calls[q].err
                            /\ \E d \in CallsFor(processor, rec, "SendDeadLetter") :
                                  d > p /\ processor.calls[d].body = body
                      /\ CallsFor(processor, rec, "Return") # {}
            /\ (EnvelopeDecodes(body) /\ ParseJob(EmbeddedBytes(body)).err # NilErr) =>
                  CallsFor(processor, rec, "Execute") = {}

\* An envelope not written by the ingester, whose job has an unknown type.
C14_Witness ==
    \E rec \in Entered(processor) :
        /\ ~processor.Records[rec].origin.valid
        /\ \E q \in CallsFor(processor, rec, "ParseJob") :
              processor.calls[q].err = <<"unknown job type">>
        /\ \E d \in CallsFor(processor, rec, "SendDeadLetter") :
              processor.calls[d].body = processor.Records[rec].Body
        /\ CallsFor(processor, rec, "Execute") = {}

\* C15: processing stage: when Execute succeeds on an envelope received with
\* status NEW, the envelope's status becomes COMPLETED, exactly one success
\* notification is published, and no dead-letter write occurs for that
\* message.
C15_SuccessCompletes ==
    \A rec \in Entered(processor) :
        LET body == processor.Records[rec].Body
        IN  \A e \in CallsFor(processor, rec, "Execute") :
                (processor.calls[e].ok /\ StrOf(body, "status") = "NEW") =>
                    /\ \E r \in CallsFor(processor, rec, "Return") :
                          processor.calls[r].arg.Status = "COMPLETED"
                    /\ Cardinality(CallsFor(processor, rec, "Publish")) = 1
                    /\ \A p \in CallsFor(processor, rec, "Publish") :
                          /\ p > e
                          /\ processor.calls[p].text = "successfully executed job"
                          /\ processor.calls[p].arg.Status = "COMPLETED"
                          /\ processor.calls[p].arg.ID = StrOf(body, "id")
                    /\ CallsFor(processor, rec, "SendDeadLetter") = {}

C15_Witness ==
    \E rec \in Entered(processor) :
        /\ processor.Records[rec].origin.valid
        /\ StrOf(processor.Records[rec].Body, "status") = "NEW"
        /\ \E e \in CallsFor(processor, rec, "Execute") :
              /\ processor.calls[e].ok
              /\ processor.calls[e].arg = DataCleanupJob("users", 30)
        /\ \E p \in CallsFor(processor, rec, "Publish") :
              processor.calls[p].arg.Status = "COMPLETED"

\* C16: processing stage: when Execute returns a failure, the in-memory
\* envelope's status becomes EXECUTE_FAILED, a failure notification is
\* published, no success notification is published, and the bytes placed on
\* the dead-letter destination are the received message body unchanged.
C16_ExecuteFailureDeadLettersBody ==
    \A rec \in Entered(processor) :
        LET body == processor.Records[rec].Body
        IN  \A e \in CallsFor(processor, rec, "Execute") :
                processor.calls[e].err # NilErr =>
                    /\ \E p \in CallsFor(processor, rec, "Publish") :
                          /\ p > e
                          /\ processor.calls[p].text = "failed to execute job"
                          /\ processor.calls[p].err = processor.calls[e].err
                          /\ processor.calls[p].arg.Status = "EXECUTE_FAILED"
                    /\ \A p \in CallsFor(processor, rec, "Publish") :
                          processor.calls[p].text # "successfully executed job"
                    /\ CallsFor(processor, rec, "SendDeadLetter") # {}
                    /\ \A d \in CallsFor(processor, rec, "SendDeadLetter") :
                          /\ processor.calls[d].body = body
                          /\ StrOf(processor.calls[d].body, "status") # "EXECUTE_FAILED"

C16_Witness ==
    \E rec \in Entered(processor) :
        /\ StrOf(processor.Records[rec].Body, "status") = "NEW"
        /\ processor.state = "running"
        /\ \E e \in CallsFor(processor, rec, "Execute") : processor.calls[e].err = ExecErr
        /\ \E p \in CallsFor(processor, rec, "Publish") :
              processor.calls[p].arg.Status = "EXECUTE_FAILED"
        /\ \E d \in CallsFor(processor, rec, "SendDeadLetter") :
              processor.calls[d].body = processor.Records[rec].Body

\* The first call processMessage makes for a record, and the message it names.
IsEntry(stage, k) ==
    \/ stage.calls[k].op = "SpanStart" /\ stage.calls[k].text = "ProcessMessage"
    \/ stage.calls[k].op = "Log" /\ stage.calls[k].text = "Processing SQS message"
EntryNames(stage, k, msg) ==
    IF stage.calls[k].op = "SpanStart" THEN stage.calls[k].arg.MessageId = msg.MessageId
    ELSE stage.calls[k].body = msg.Body

\* While the handler runs: the records before stage.i, and only those, have
\* been processed, each once, one after the other in the order of Records.
ProcessedInOrder(stage) ==
    stage.state = "running" =>
        /\ stage.i \in 1..(Len(stage.Records) + 1)
        /\ \A k \in 1..Len(stage.calls) : stage.calls[k].rec \in 1..(stage.i - 1)
        /\ \A j, k \in 1..Len(stage.calls) : j < k => stage.calls[j].rec <= stage.calls[k].rec
        /\ \A rec \in 1..(stage.i - 1) :
              /\ Cardinality({k \in 1..Len(stage.calls) :
                                 stage.calls[k].rec = rec /\ IsEntry(stage, k)}) = 1
              /\ \A k \in 1..Len(stage.calls) :
                    (stage.calls[k].rec = rec /\ IsEntry(stage, k)) =>
                        EntryNames(stage, k, stage.Records[rec])
              /\ Cardinality(CallsFor(stage, rec, "Return")) = 1

\* The handler returns only after the last record of the batch.
ReturnsAfterLast(stage, after) ==
    (stage.state = "running" /\ after.state = "returned") =>
        stage.i = Len(stage.Records) + 1

NotForwarded(rec) ==
    /\ rec \in Entered(ingester)
    /\ \A k \in CallsFor(ingester, rec, "SendJobsTodo") : ~ingester.calls[k].ok
NotExecuted(rec) ==
    /\ rec \in Entered(processor)
    /\ CallsFor(processor, rec, "Return") # {}
    /\ \A k \in CallsFor(processor, rec, "Execute") : ~processor.calls[k].ok

\* The processor left the record at a trace id or span id that is not hex.
TraceAbort(rec) ==
    \E k \in CallsFor(processor, rec, "Log") :
        processor.calls[k].text = "Failed to parse trace ID or span ID from traceparent"

\* C18: on every path by which either stage stops processing a message
\* without forwarding it (ingestion) or without a successful Execute
\* (processing), a notification is published; no exit path only logs or
\* drops the message silently.
C18_EveryStopNotifies ==
    /\ \A rec \in 1..Len(ingester.Records) :
          NotForwarded(rec) => CallsFor(ingester, rec, "Publish") # {}
    /\ \A rec \in 1..Len(processor.Records) :
          NotExecuted(rec) => CallsFor(processor, rec, "Publish") # {}

\* What holds: every such path publishes, except the processor's return at a
\* token whose trace id or span id does not parse.
EveryStopNotifiesButTraceAbort ==
    /\ \A rec \in 1..Len(ingester.Records) :
          NotForwarded(rec) => CallsFor(ingester, rec, "Publish") # {}
    /\ \A rec \in 1..Len(processor.Records) :
          (NotExecuted(rec) /\ ~TraceAbort(rec)) => CallsFor(processor, rec, "Publish") # {}
    /\ \A rec \in 1..Len(processor.Records) :
          (NotExecuted(rec) /\ TraceAbort(rec)) =>
              /\ CallsFor(processor, rec, "Publish") = {}
              /\ CallsFor(processor, rec, "SendDeadLetter") = {}

\* C19: every message that fails at any step of the ingestion stage or of the
\* processing stage has a dead-letter send attempted with that message's
\* payload; no message leaves either stage having been neither forwarded or
\* successfully executed nor submitted to the dead-letter destination.
C19_EveryFailureDeadLettered ==
    /\ \A rec \in 1..Len(ingester.Records) :
          NotForwarded(rec) =>
              \E d \in CallsFor(ingester, rec, "SendDeadLetter") :
                  /\ ingester.calls[d].body # NilBytes
                  /\ ingester.calls[d].body \in {ingester.Records[rec].Body,
                                                  DetailOf(ingester.Records[rec].Body)}
    /\ \A rec \in 1..Len(processor.Records) :
          NotExecuted(rec) =>
              \E d \in CallsFor(processor, rec, "SendDeadLetter") :
                  processor.calls[d].body = processor.Records[rec].Body

\* What holds: a dead-letter send is attempted on every failure path but the
\* processor's return at an unparsable trace id or span id, and it carries
\* the payload unless the ingester has no detail bytes to send.
EveryFailureDeadLetteredButTraceAbort ==
    /\ \A rec \in 1..Len(ingester.Records) :
          NotForwarded(rec) =>
              \E d \in CallsFor(ingester, rec, "SendDeadLetter") :
                  ingester.calls[d].body = DetailOf(ingester.Records[rec].Body)
    /\ \A rec \in 1..Len(processor.Records) :
          (NotExecuted(rec) /\ ~TraceAbort(rec)) =>
              \E d \in CallsFor(processor, rec, "SendDeadLetter") :
                  processor.calls[d].body = processor.Records[rec].Body

\* A log line after call p of the record that is none of the lines the code
\* writes after a notification for other reasons.
LoggedAfter(stage, rec, p) ==
    \E j \in CallsFor(stage, rec, "Log") :
        /\ j > p
        /\ stage.calls[j].text \notin {"failed to send message to dead-letter queue",
                                       "Ending ExecuteJob span"}

\* Failure routing of a stage, best effort: logPublish says whether a failed
\* publish is required to be logged.
BestEffort(stage, logPublish) ==
    \A rec \in Entered(stage) :
        /\ \A p \in CallsFor(stage, rec, "Publish") :
              ~stage.calls[p].ok =>
                  /\ logPublish => LoggedAfter(stage, rec, p)
                  /\ stage.calls[p].text # "successfully executed job" =>
                        \E d \in CallsFor(stage, rec, "SendDeadLetter") : d > p
                  /\ CallsFor(stage, rec, "Return") # {}
        /\ \A d \in CallsFor(stage, rec, "SendDeadLetter") :
              ~stage.calls[d].ok =>
                  /\ d < Len(stage.calls)
                  /\ stage.calls[d + 1].rec = rec
                  /\ stage.calls[d + 1].op = "Log"
                  /\ stage.calls[d + 1].text = "failed to send message to dead-letter queue"
                  /\ CallsFor(stage, rec, "Return") # {}
                  /\ rec < stage.i

\* C20: failure routing is best-effort in both sub-steps: a failure to
\* publish the notification is logged, does not raise, and does not prevent
\* the dead-letter send from being attempted; a failure of the dead-letter
\* send is logged, does not raise, and does not stop the handler from
\* continuing with the next message.
C20_BestEffortRouting == BestEffort(ingester, TRUE) /\ BestEffort(processor, TRUE)

\* What holds: the same, with a failed publish leaving no log line.
BestEffortRoutingPublishUnlogged ==
    /\ BestEffort(ingester, FALSE) /\ BestEffort(processor, FALSE)
    /\ \A rec \in Entered(ingester) :
          \A p \in CallsFor(ingester, rec, "Publish") : ~LoggedAfter(ingester, rec, p)
    /\ \A rec \in Entered(processor) :
          \A p \in CallsFor(processor, rec, "Publish") : ~LoggedAfter(processor, rec, p)

----------------------------------------------------------------------------
(* Trace tokens that do not parse (checked under Spec) *)

\* Records of the running processor invocation whose processMessage returned.
Returned(rec) ==
    rec \in Entered(processor) /\ CallsFor(processor, rec, "Return") # {}

HasFrame(tc) == Len(tc) = 55 /\ SubSeq(tc, 1, 3) = <<"0", "0", "-">>
TraceIdNotHex(tc) == HasFrame(tc) /\ \E i \in 4..35 : tc[i] \notin HexDigits

\* C23: processing stage: for a 55-character token prefixed "00-" whose
\* trace-id substring (offsets 3..35) fails to parse as hex, the failure is
\* logged and only the trace linkage is abandoned: the message still proceeds
\* to ParseJob and Execute and reaches a terminal outcome.
C23_TraceIdFailureContinues ==
    \A rec \in 1..Len(processor.Records) :
        LET body == processor.Records[rec].Body
            pj == ParseJob(EmbeddedBytes(body))
        IN  (Returned(rec) /\ EnvelopeDecodes(body) /\ TraceIdNotHex(TokenOf(body))) =>
                /\ TraceAbort(rec)
                /\ CallsFor(processor, rec, "ParseJob") # {}
                /\ pj.err = NilErr =>
                      /\ \E k \in CallsFor(processor, rec, "Execute") :
                            processor.calls[k].arg = pj.job
                      /\ \E k \in CallsFor(processor, rec, "Publish") :
                            processor.calls[k].arg.Status
                                \in {StatusCompleted, StatusExecuteFailed}
                /\ pj.err # NilErr => CallsFor(processor, rec, "Publish") # {}

\* What holds: the failure is logged and processMessage returns at once;
\* the job is neither re-parsed nor executed, and nothing is published or
\* dead-lettered.
TraceIdFailureEndsProcessing ==
    \A rec \in 1..Len(processor.Records) :
        LET body == processor.Records[rec].Body
        IN  (Returned(rec) /\ EnvelopeDecodes(body) /\ TraceIdNotHex(TokenOf(body))) =>
                /\ TraceAbort(rec)
                /\ \A op \in {"ParseJob", "SpanStart", "Execute", "Publish", "SendDeadLetter"} :
                      CallsFor(processor, rec, op) = {}

TraceIdFailureReached ==
    \E rec \in 1..Len(processor.Records) :
        /\ Returned(rec)
        /\ EnvelopeDecodes(processor.Records[rec].Body)
        /\ TraceIdNotHex(TokenOf(processor.Records[rec].Body))

\* The form 00-<32 hex>-<16 hex>-<2 hex>.
WellFormedToken(tc) ==
    /\ HasFrame(tc)
    /\ tc[36] = "-"
    /\ tc[53] = "-"
    /\ \A i \in (4..35) \cup (37..52) \cup (54..55) : tc[i] \in HexDigits

Unparented(rec) ==
    \A k \in CallsFor(processor, rec, "SpanStart") :
        processor.calls[k].arg.parent = [valid |-> FALSE]

\* C24: processing stage: a trace_context that deviates in any way from
\* 00-<32 hex>-<16 hex>-<2 hex> (wrong length, wrong prefix, a separator other
\* than '-' at offset 35 or 52, non-hex digits) is never used as a parent
\* context: the execution span is started as a new unparented trace and the
\* message is not failed because of the token.
C24_MalformedTokenNeverParent ==
    \A rec \in 1..Len(processor.Records) :
        LET body == processor.Records[rec].Body
            pj == ParseJob(EmbeddedBytes(body))
        IN  (Returned(rec) /\ EnvelopeDecodes(body) /\ TokenOf(body) # <<>>
                /\ ~WellFormedToken(TokenOf(body))) =>
                /\ Unparented(rec)
                /\ ~TraceAbort(rec)
                /\ pj.err = NilErr =>
                      /\ CallsFor(processor, rec, "SpanStart") # {}
                      /\ \E k \in CallsFor(processor, rec, "Execute") :
                            processor.calls[k].arg = pj.job

\* What holds: only the length and the prefix are looked at before the ids
\* are sliced out.  A token of another length or prefix is not used as a
\* parent; one whose trace id or span id has a character outside 0-9a-f (or
\* is all zero) ends the message; every other token, whatever stands at
\* offsets 35 and 52 to 54, becomes the remote parent of the execution span.
MalformedTokenAsDecoded ==
    \A rec \in 1..Len(processor.Records) :
        LET body == processor.Records[rec].Body
            tc == TokenOf(body)
            pj == ParseJob(EmbeddedBytes(body))
            idsOK == /\ \A i \in (4..35) \cup (37..52) : tc[i] \in HexDigits
                     /\ \E i \in 4..35 : tc[i] # "0"
                     /\ \E i \in 37..52 : tc[i] # "0"
        IN  (Returned(rec) /\ EnvelopeDecodes(body) /\ tc # <<>> /\ ~WellFormedToken(tc)) =>
                /\ ~HasFrame(tc) => (Unparented(rec) /\ ~TraceAbort(rec))
                /\ (HasFrame(tc) /\ ~idsOK) => TraceAbort(rec)
                /\ (HasFrame(tc) /\ idsOK /\ pj.err = NilErr) =>
                      \E k \in CallsFor(processor, rec, "SpanStart") :
                          /\ processor.calls[k].arg.parent.valid
                          /\ processor.calls[k].arg.parent.TraceID = HexBytes(SubSeq(tc, 4, 35))
                          /\ processor.calls[k].arg.parent.SpanID = HexBytes(SubSeq(tc, 37, 52))

BadSeparatorParentReached ==
    \E rec \in 1..Len(processor.Records) :
        /\ Returned(rec)
        /\ HasFrame(TokenOf(processor.Records[rec].Body))
        /\ TokenOf(processor.Records[rec].Body)[36] = "x"
        /\ \E k \in CallsFor(processor, rec, "SpanStart") :
              processor.calls[k].arg.parent.valid

----------------------------------------------------------------------------
(* Failure routing of both stages (checked under Spec) *)

\* The SQS body is not JSON, is not a JSON object, or has no detail field.
CannotUnwrap(body) ==
    \/ body.syn # "ok"
    \/ body.v.t # "obj"
    \/ Field(body.v, "detail").t = "absent"

\* C25: ingestion stage: when the transport envelope cannot be unwrapped (the
\* body is not valid JSON, or it has no usable detail field), the message is
\* routed to failure handling: a notification is published and the offending
\* payload, the bytes that failed, is enqueued, non-empty, on the dead-letter
\* destination.
C25_UnwrapFailureDeadLettersPayload ==
    \A rec \in Entered(ingester) :
        CannotUnwrap(ingester.Records[rec].Body) =>
            /\ CallsFor(ingester, rec, "Publish") # {}
            /\ \E d \in CallsFor(ingester, rec, "SendDeadLetter") :
                  /\ ingester.calls[d].body # NilBytes
                  /\ ingester.calls[d].body = ingester.Records[rec].Body

\* What holds: a notification is published and one dead-letter send is made,
\* both with the empty string(eventBridgeMessage.Detail); the body that
\* failed is in neither, and nothing is forwarded.
UnwrapFailureRoutesEmptyDetail ==
    \A rec \in Entered(ingester) :
        CannotUnwrap(ingester.Records[rec].Body) =>
            /\ CallsFor(ingester, rec, "Publish") # {}
            /\ \A k \in CallsFor(ingester, rec, "Publish") : ingester.calls[k].body = NilBytes
            /\ Cardinality(CallsFor(ingester, rec, "SendDeadLetter")) = 1
            /\ \A d \in CallsFor(ingester, rec, "SendDeadLetter") :
                  ingester.calls[d].body = NilBytes
            /\ CallsFor(ingester, rec, "SendJobsTodo") = {}

UnwrapFailureReached ==
    \E rec \in Entered(ingester) :
        /\ ingester.Records[rec].Body = Garbage
        /\ CallsFor(ingester, rec, "SendDeadLetter") # {}

PublishBeforeDeadLetter(stage) ==
    \A rec \in Entered(stage) :
        \A d \in CallsFor(stage, rec, "SendDeadLetter") :
            \E p \in CallsFor(stage, rec, "Publish") : p < d

\* C26: in every execution of either stage in which a dead-letter send is
\* attempted for a message, a notification publish for that same message was
\* attempted strictly before it.
C26_PublishBeforeDeadLetter ==
    PublishBeforeDeadLetter(ingester) /\ PublishBeforeDeadLetter(processor)

\* The ingester dead-lettered a job that failed ParseJob, after a publish
\* that failed.
C26_Witness ==
    \E rec \in Entered(ingester) :
        \E d \in CallsFor(ingester, rec, "SendDeadLetter") :
            /\ ingester.calls[d].body = Text("compact", UnknownJob)
            /\ \E p \in CallsFor(ingester, rec, "Publish") :
                  p < d /\ ~ingester.calls[p].ok

----------------------------------------------------------------------------
(* The execution span (checked under SpecAnyExecute) *)

\* C27: processing stage: whenever the execution span has been started for a
\* message, it is ended exactly once before processing of that message
\* returns, on the Execute-success path and on the Execute-failure path
\* alike; no span is left open when the handler moves to the next message.
C27_SpanEndedOnceBeforeReturn ==
    \A rec \in 1..Len(processor.Records) :
        Returned(rec) =>
            LET starts == {k \in CallsFor(processor, rec, "SpanStart") :
                              processor.calls[k].text = "ExecuteJob"}
                ends == {k \in CallsFor(processor, rec, "SpanEnd") :
                            processor.calls[k].text = "ExecuteJob"}
            IN  /\ Cardinality(starts) <= 1
                /\ Cardinality(ends) = Cardinality(starts)
                /\ \A b \in starts : \A e \in ends : b < e
                /\ \A e \in ends : \A r \in CallsFor(processor, rec, "Return") : e < r
                /\ \A x \in CallsFor(processor, rec, "Execute") :
                      /\ \E b \in starts : b < x
                      /\ \E e \in ends : x < e

\* Execute returned an error, the failure was routed, the span was ended and
\* processMessage returned.
C27_Witness ==
    \E rec \in 1..Len(processor.Records) :
        /\ Returned(rec)
        /\ \E x \in CallsFor(processor, rec, "Execute") : processor.calls[x].err = ExecErr
        /\ \E e \in CallsFor(processor, rec, "SpanEnd") :
              \E d \in CallsFor(processor, rec, "SendDeadLetter") : d < e

\* The same on the path where Execute returned nil.
SpanEndedAfterSuccess ==
    \E rec \in 1..Len(processor.Records) :
        /\ Returned(rec)
        /\ \E x \in CallsFor(processor, rec, "Execute") : processor.calls[x].ok
        /\ CallsFor(processor, rec, "SpanEnd") # {}

----------------------------------------------------------------------------
(* End-to-end progress (checked under SpecLive) *)

EventIds == {IngesterIds[k] : k \in 1..Len(IngesterIds)}

\* The jobs of the events that pass ParseJob.
EventJobs ==
    {ParseJob(DetailOf(b)).job : b \in {x \in EventBodies : ParseJob(DetailOf(x)).err = NilErr}}

\* The event with id m waits for the ingester and its job bytes parse to j.
Queued(m, j) ==
    \E k \in 1..Len(ingesterQueue) :
        /\ ingesterQueue[k].MessageId = m
        /\ ParseJob(DetailOf(ingesterQueue[k].Body)).err = NilErr
        /\ ParseJob(DetailOf(ingesterQueue[k].Body)).job = j

\* The processor has executed j for the event with id m, and published the
\* outcome with the terminal status.
Done(m, j) ==
    \E rec \in 1..Len(processor.Records) :
        /\ Returned(rec)
        /\ processor.Records[rec].origin.valid
        /\ processor.Records[rec].origin.MessageId = m
        /\ \E x \in CallsFor(processor, rec, "Execute") :
              /\ processor.calls[x].arg = j
              /\ processor.calls[x].text # "timeout"
              /\ \E p \in CallsFor(processor, rec, "Publish") :
                    /\ x < p
                    /\ processor.calls[p].ok
                    /\ processor.calls[p].arg.Status
                           \in {StatusCompleted, StatusExecuteFailed}

\* C28: assuming every queue send and notification publish succeeds and each
\* queued message is eventually delivered, every raw event whose job bytes
\* pass ParseJob eventually leads to the processing stage invoking Execute on
\* a job equal to the one validated at ingestion, after which the status is
\* COMPLETED or EXECUTE_FAILED and an outcome notification is published.
C28_EveryValidEventCompletes ==
    \A m \in EventIds : \A j \in EventJobs : Queued(m, j) ~> Done(m, j)

\* No LongRunning event waits for the ingester.
NoLongRunningEvent ==
    \A k \in 1..Len(ingesterQueue) :
        ParseJob(DetailOf(ingesterQueue[k].Body)).jobType # stringPtr(LongRunning)

\* What holds: the same in every run in which no LongRunning event is put on
\* the bus.
EveryEventCompletesWithoutLongRunning ==
    \A m \in EventIds : \A j \in EventJobs :
        <>(~NoLongRunningEvent) \/ (Queued(m, j) ~> Done(m, j))

\* A message the ingester forwarded ends on the dead-letter queue by the
\* redrive policy, never executed to the end.
ForwardedJobRedriven ==
    \E k \in 1..Len(redriven) :
        /\ redriven[k].origin.valid
        /\ ParseJob(EmbeddedBytes(redriven[k].Body)).job = LongRunningJob("backup", 900)

----------------------------------------------------------------------------
(* LongRunning jobs and the invocation's time budget (checked under Spec) *)

\* C29: every LongRunning job accepted by Validate has a timeout smaller than
\* the processing stage's invocation timeout budget (900 seconds), so that
\* Execute always returns before the invocation deadline and the message is
\* not redelivered mid-execution.
C29_LongRunningFitsBudget ==
    \A rec \in Entered(processor) :
        \A x \in CallsFor(processor, rec, "Execute") :
            processor.calls[x].arg.kind = "LongRunningJob" =>
                /\ Validate(processor.calls[x].arg) = NilErr
                /\ processor.calls[x].arg.Timeout < 900
                /\ processor.calls[x].text # "timeout"
                /\ processor.state # "killed"

\* What holds: Validate bounds the timeout from below only; an Execute that
\* would pass the deadline is cut off by the runtime, and the batch is
\* delivered again.
LongRunningCutOffAtBudget ==
    \A rec \in Entered(processor) :
        \A x \in CallsFor(processor, rec, "Execute") :
            processor.calls[x].arg.kind = "LongRunningJob" =>
                /\ Validate(processor.calls[x].arg) = NilErr
                /\ processor.calls[x].arg.Timeout > 0
                /\ processor.calls[x].arg.Timeout >= LambdaTimeout =>
                      /\ processor.calls[x].text = "timeout"
                      /\ processor.state = "killed"
                      /\ CallsFor(processor, rec, "Return") = {}

----------------------------------------------------------------------------
(* What the handlers return (checked under Spec) *)

\* A step in which a handler returns: it returns nil, and the queue it reads
\* is left as it is.  A message comes (back) onto a queue only from a
\* producer, from the ingester's send, or after the runtime ended an
\* invocation.
ReturnStep ==
    /\ (ingester.state = "running" /\ ingester'.state # "running") =>
          (ingester'.state = "returned" /\ ingester'.result = "nil"
              /\ ingesterQueue' = ingesterQueue)
    /\ (processor.state = "running" /\ processor'.state \notin {"running", "killed"}) =>
          (processor'.state = "returned" /\ processor'.result = "nil"
              /\ jobsTodo' = jobsTodo)
    /\ Len(ingesterQueue') > Len(ingesterQueue) => produced' = produced + 1
    /\ Len(jobsTodo') > Len(jobsTodo) =>
          \/ produced' = produced + 1
          \/ ingester'.calls # ingester.calls
          \/ processor.state = "killed"

\* C30: both stage handlers report success (return nil) to the transport for
\* every batch, whatever the per-message outcomes, including when both the
\* notification publish and the dead-letter send failed; the handler's return
\* value never causes the transport to redeliver a message.
C30_HandlersReturnNil ==
    /\ [](ingester.state = "returned" => ingester.result = "nil")
    /\ [](processor.state = "returned" => processor.result = "nil")
    /\ [][ReturnStep]_vars

\* The ingester returned nil from a batch with a message for which both the
\* notification and the dead-letter send had failed.
C30_Witness ==
    /\ ingester.state = "returned"
    /\ ingester.result = "nil"
    /\ ingester.unrouted > 0

\* The same for the processor.
ProcessorReturnedNilUnrouted ==
    /\ processor.state = "returned"
    /\ processor.result = "nil"
    /\ processor.unrouted > 0

----------------------------------------------------------------------------
(* Forwarded or dead-lettered (checked under Spec) *)

\* The send of record rec to jobs-todo was reported as successful.
Forwarded(rec) ==
    \E k \in CallsFor(ingester, rec, "SendJobsTodo") : ingester.calls[k].ok

\* C31: ingestion stage: for each message, a dead-letter send is attempted if
\* and only if the message was not reported as successfully submitted to the
\* second-stage queue; no message is both successfully forwarded and
\* dead-lettered, and at most one dead-letter send is attempted per message.
C31_DeadLetterIffNotForwarded ==
    \A rec \in Entered(ingester) :
        /\ CallsFor(ingester, rec, "SendDeadLetter") # {} <=> ~Forwarded(rec)
        /\ ~(Forwarded(rec) /\ CallsFor(ingester, rec, "SendDeadLetter") # {})
        /\ Cardinality(CallsFor(ingester, rec, "SendDeadLetter")) <= 1
        /\ Cardinality(CallsFor(ingester, rec, "SendJobsTodo")) <= 1

\* In one batch, one message was forwarded and not dead-lettered, and the
\* send of the other failed and one dead-letter send was attempted for it.
C31_Witness ==
    \E r1 \in Entered(ingester), r2 \in Entered(ingester) :
        /\ Forwarded(r1)
        /\ CallsFor(ingester, r1, "SendDeadLetter") = {}
        /\ \E k \in CallsFor(ingester, r2, "SendJobsTodo") : ~ingester.calls[k].ok
        /\ Cardinality(CallsFor(ingester, r2, "SendDeadLetter")) = 1

----------------------------------------------------------------------------
(* Execute never fails (checked under Spec) *)

\* C32: for all four job kinds, Execute on any job that passed Validate
\* returns no error, so in the processing stage the EXECUTE_FAILED status, the
\* "job failed" notification and the execute-failure dead-letter write are
\* unreachable for messages that pass the re-parse.
C32_ExecuteNeverFails ==
    /\ \A j \in JobValues : Validate(j) = NilErr => Execute(j) = NilErr
    /\ \A k \in 1..Len(processor.calls) :
          LET c == processor.calls[k]
          IN  /\ c.op = "Execute" => (c.err = NilErr /\ Validate(c.arg) = NilErr)
              /\ c.op \in {"Publish", "Log", "AddEvent"} =>
                    c.text \notin {"failed to execute job", "job failed to execute"}
              /\ c.op \in {"Publish", "Return"} =>
                    (c.arg # NoArg => c.arg.Status # StatusExecuteFailed)
              /\ c.op = "RecordError" => FALSE
    /\ \A rec \in Entered(processor) :
          CallsFor(processor, rec, "ParseJob") # {}
              /\ (\A k \in CallsFor(processor, rec, "ParseJob") : processor.calls[k].ok)
              => CallsFor(processor, rec, "SendDeadLetter") = {}

\* A job of each kind was executed in the processing stage and the outcome
\* published with status COMPLETED.
ExecutedCompleted(kind) ==
    \E rec \in Entered(processor) :
        /\ \E x \in CallsFor(processor, rec, "Execute") :
              /\ processor.calls[x].arg.kind = kind
              /\ processor.calls[x].ok
        /\ \E p \in CallsFor(processor, rec, "Publish") :
              /\ processor.calls[p].text = "successfully executed job"
              /\ processor.calls[p].arg.Status = StatusCompleted
        /\ CallsFor(processor, rec, "SendDeadLetter") = {}

C32_Witness ==
    ExecutedCompleted("LongRunningJob") /\ ExecutedCompleted("DataCleanupJob")

----------------------------------------------------------------------------
(* Status and id of an incoming envelope (checked under Spec) *)

\* The token is one the decoder gets past: absent, of another length or
\* prefix, or with a trace id and a span id that parse (C23 and C24 are about
\* the others).
TokenPassable(tc) ==
    \/ ~HasFrame(tc)
    \/ /\ \A i \in (4..35) \cup (37..52) : tc[i] \in HexDigits
       /\ \E i \in 4..35 : tc[i] # "0"
       /\ \E i \in 37..52 : tc[i] # "0"

\* C33: neither ParseEnrichedPayload nor the processing stage checks the
\* envelope's incoming status or id: an envelope carrying any status string
\* (IN_PROGRESS, COMPLETED, ...) is accepted, with the status returned
\* unchanged by ParseEnrichedPayload, and each delivery of the same envelope
\* to the processing stage re-parses and executes the job again (there is no
\* de-duplication), ending with status COMPLETED or EXECUTE_FAILED.
C33_StatusAndIdUnchecked ==
    \A rec \in 1..Len(processor.Records) :
        LET body == processor.Records[rec].Body
            pj == ParseJob(EmbeddedBytes(body))
            pe == ParseEnrichedPayload(body)
        IN  (Returned(rec) /\ EnvelopeDecodes(body) /\ pj.err = NilErr
                /\ TokenPassable(TokenOf(body))) =>
                /\ pe.err = NilErr
                /\ pe.payload.Status = StrOf(body, "status")
                /\ pe.payload.ID = StrOf(body, "id")
                /\ \E k \in CallsFor(processor, rec, "ParseJob") : processor.calls[k].ok
                /\ \E x \in CallsFor(processor, rec, "Execute") :
                      processor.calls[x].arg = pj.job
                /\ \E r \in CallsFor(processor, rec, "Return") :
                      /\ processor.calls[r].arg.Status
                             \in {StatusCompleted, StatusExecuteFailed}
                      /\ processor.calls[r].arg.ID = StrOf(body, "id")

\* An envelope that arrived with status IN_PROGRESS is delivered a second
\* time, after the invocation of its first delivery was cut off at a later
\* message, and is executed again.
C33_Witness ==
    \E rec \in 1..Len(processor.Records) :
        /\ Returned(rec)
        /\ processor.Records[rec].ReceiveCount >= 2
        /\ StrOf(processor.Records[rec].Body, "status") = "IN_PROGRESS"
        /\ \E x \in CallsFor(processor, rec, "Execute") : processor.calls[x].ok
        /\ \E r \in CallsFor(processor, rec, "Return") :
              processor.calls[r].arg.Status = StatusCompleted

====
